---- MODULE Spec2Model ----
(***************************************************************************)
(* Restaurant recommendation service: store query, recommendation          *)
(* orchestrator, external summarizer client, response cache and the        *)
(* POST /recommend handler.                                                *)
(*                                                                         *)
(* Text values are sequences of one-character strings over Alphabet, so    *)
(* that trimming, case folding, whitespace removal and SQL LIKE matching   *)
(* are computed and not assumed.  An optional value is None (the empty     *)
(* tuple) or Some(x) (a one-element tuple).  Ratings are in tenths.        *)
(***************************************************************************)
EXTENDS Integers, Sequences, FiniteSets, TLC

\* ------------------------------------------------------------------------
\* Optional values
\* ------------------------------------------------------------------------
None == <<>>

Some(x) == <<x>>

IsSome(o) == o # <<>>

Val(o) == o[1]

\* ------------------------------------------------------------------------
\* Text
\* ------------------------------------------------------------------------
Alphabet == {"a", "b", "c", "d", "x", "A", "B", " ", "\t", "_", "%", ","}

\* str.lower() / SQL LOWER() on the (ASCII) alphabet
LowerChar(c) ==
    CASE c = "A" -> "a" [] c = "B" -> "b" [] c = "D" -> "d" [] c = "E" -> "e"
      [] c = "N" -> "n" [] c = "W" -> "w" [] c = "Y" -> "y" [] OTHER -> c

RECURSIVE Lower(_)
Lower(s) == IF s = <<>> THEN <<>> ELSE <<LowerChar(Head(s))>> \o Lower(Tail(s))

\* characters str.split() and str.strip() treat as whitespace
Whitespace == {" ", "\t"}

RECURSIVE DropWhile(_, _)
DropWhile(s, drop) ==
    IF s = <<>> THEN <<>>
    ELSE IF Head(s) \in drop THEN DropWhile(Tail(s), drop) ELSE s

RECURSIVE DropWhileEnd(_, _)
DropWhileEnd(s, drop) ==
    IF s = <<>> THEN <<>>
    ELSE IF s[Len(s)] \in drop THEN DropWhileEnd(SubSeq(s, 1, Len(s) - 1), drop) ELSE s

\* str.strip()
PyStrip(s) == DropWhileEnd(DropWhile(s, Whitespace), Whitespace)

\* SQL TRIM(x): removes spaces only
SqlTrim(s) == DropWhileEnd(DropWhile(s, {" "}), {" "})

RECURSIVE RemoveChars(_, _)
RemoveChars(s, drop) ==
    IF s = <<>> THEN <<>>
    ELSE IF Head(s) \in drop THEN RemoveChars(Tail(s), drop)
         ELSE <<Head(s)>> \o RemoveChars(Tail(s), drop)

\* "".join(s.split()).lower()
PyNormToken(s) == Lower(RemoveChars(s, Whitespace))

\* s.lower().replace(" ", "")
PyLowerNoSpace(s) == RemoveChars(Lower(s), {" "})

\* needle in haystack
Contains(hay, needle) ==
    \E i \in 0..(Len(hay) - Len(needle)) :
        \A j \in 1..Len(needle) : hay[i + j] = needle[j]

\* text LIKE pattern (SQLite: % any run, _ any one character, ASCII case-insensitive)
RECURSIVE SqlLike(_, _)
SqlLike(text, pat) ==
    IF pat = <<>> THEN text = <<>>
    ELSE IF Head(pat) = "%"
         THEN SqlLike(text, Tail(pat)) \/ (text # <<>> /\ SqlLike(Tail(text), pat))
         ELSE /\ text # <<>>
              /\ (Head(pat) = "_" \/ LowerChar(Head(pat)) = LowerChar(Head(text)))
              /\ SqlLike(Tail(text), Tail(pat))

\* ------------------------------------------------------------------------
\* Store rows and RestaurantStore.query
\* ------------------------------------------------------------------------
\* COALESCE(x, '')
Coalesce(o) == IF IsSome(o) THEN Val(o) ELSE <<>>

\* REPLACE(LOWER(TRIM(COALESCE(location,''))), ' ', '') = ?   with ? = "".join(loc.split()).lower()
StoreLocationCond(row, location) ==
    RemoveChars(Lower(SqlTrim(Coalesce(row.location))), {" "}) = PyNormToken(PyStrip(location))

\* a wrong bound: rows with a NULL rate are excluded
StoreMinRateCond_ExcludesNull(row, min_rate) == IsSome(row.rate) /\ Val(row.rate) >= min_rate

\* (rate IS NULL OR rate >= ?)
StoreMinRateCond(row, min_rate) == (~IsSome(row.rate)) \/ Val(row.rate) >= min_rate

\* (cost_for_two IS NULL OR cost_for_two <= ?)
StoreMaxCostCond(row, max_cost) == (~IsSome(row.cost_for_two)) \/ Val(row.cost_for_two) <= max_cost

\* (cost_for_two IS NULL OR cost_for_two >= ?)
StoreMinCostCond(row, min_cost) == (~IsSome(row.cost_for_two)) \/ Val(row.cost_for_two) >= min_cost

\* (COALESCE(cuisines,'') != '' AND LOWER(REPLACE(COALESCE(cuisines,''), ' ', '')) LIKE '%' || norm || '%')
StoreCuisineCond(row, cuisine) ==
    /\ Coalesce(row.cuisines) # <<>>
    /\ SqlLike(Lower(RemoveChars(Coalesce(row.cuisines), {" "})),
               <<"%">> \o PyNormToken(PyStrip(cuisine)) \o <<"%">>)

\* LOWER(rest_type) LIKE LOWER('%' || rest_type || '%'); NULL rest_type never matches
StoreRestTypeCond(row, rest_type) ==
    /\ IsSome(row.rest_type)
    /\ SqlLike(Lower(Val(row.rest_type)), Lower(<<"%">> \o rest_type \o <<"%">>))

\* online_order = ? / book_table = ?   (columns hold 0 or 1)
StoreFlagCond(col, want) == col = (IF want THEN 1 ELSE 0)

\* the WHERE clause built by query(); kw holds optional keyword arguments
StoreWhere(row, kw) ==
    /\ (IsSome(kw.location) /\ Val(kw.location) # <<>> /\ PyStrip(Val(kw.location)) # <<>>)
          => StoreLocationCond(row, Val(kw.location))
    /\ IsSome(kw.min_rate) => StoreMinRateCond(row, Val(kw.min_rate))
    /\ IsSome(kw.max_cost) => StoreMaxCostCond(row, Val(kw.max_cost))
    /\ IsSome(kw.min_cost) => StoreMinCostCond(row, Val(kw.min_cost))
    /\ (IsSome(kw.cuisine_contains) /\ PyStrip(Val(kw.cuisine_contains)) # <<>>)
          => StoreCuisineCond(row, Val(kw.cuisine_contains))
    /\ (IsSome(kw.rest_type) /\ Val(kw.rest_type) # <<>>)
          => StoreRestTypeCond(row, Val(kw.rest_type))
    /\ IsSome(kw.online_order) => StoreFlagCond(row.online_order, Val(kw.online_order))
    /\ IsSome(kw.book_table) => StoreFlagCond(row.book_table, Val(kw.book_table))

\* a wrong ranking: NULL rates are not moved to the end
RankBefore_NullRateFirst(r1, r2) ==
    IF r1.rate = r2.rate THEN r1.id < r2.id
    ELSE (~IsSome(r1.rate)) \/ (IsSome(r2.rate) /\ Val(r1.rate) > Val(r2.rate))

\* ORDER BY rate IS NULL, rate DESC, votes IS NULL, votes DESC  (rows equal on all
\* four keys come out in insertion order)
RankBefore(r1, r2) ==
    LET n1 == ~IsSome(r1.rate)
        n2 == ~IsSome(r2.rate)
        v1 == ~IsSome(r1.votes)
        v2 == ~IsSome(r2.votes)
        sameRate == (n1 /\ n2) \/ (~n1 /\ ~n2 /\ Val(r1.rate) = Val(r2.rate))
        sameVotes == (v1 /\ v2) \/ (~v1 /\ ~v2 /\ Val(r1.votes) = Val(r2.votes))
    IN  IF ~sameRate
        THEN (~n1 /\ n2) \/ (~n1 /\ ~n2 /\ Val(r1.rate) > Val(r2.rate))
        ELSE IF ~sameVotes
             THEN (~v1 /\ v2) \/ (~v1 /\ ~v2 /\ Val(r1.votes) > Val(r2.votes))
             ELSE r1.id < r2.id

RECURSIVE SortRows(_)
SortRows(rows) ==
    IF rows = {} THEN <<>>
    ELSE LET first == CHOOSE r \in rows : \A o \in rows \ {r} : RankBefore(r, o)
         IN  <<first>> \o SortRows(rows \ {first})

\* a wrong slice: nothing is cut off
Take_All(s, n) == s

\* s[:n] for n >= 0
Take(s, n) == SubSeq(s, 1, IF n < Len(s) THEN n ELSE Len(s))

SeqRange(s) == {s[i] : i \in 1..Len(s)}

\* RestaurantStore.query(**kw): SELECT * WHERE ... ORDER BY ... LIMIT ?
StoreQuery(rows, kw) ==
    Take(SortRows({r \in SeqRange(rows) : StoreWhere(r, kw)}), kw.limit)

\* ------------------------------------------------------------------------
\* RecommendPreferences
\* ------------------------------------------------------------------------
\* normalize_location / normalize_rest_type: blank -> None, otherwise stripped
NormalizeText(o) ==
    IF ~IsSome(o) THEN None
    ELSE IF PyStrip(Val(o)) = <<>> THEN None ELSE Some(PyStrip(Val(o)))

RECURSIVE StripNonBlank(_)
StripNonBlank(list) ==
    IF list = <<>> THEN <<>>
    ELSE IF PyStrip(Head(list)) = <<>> THEN StripNonBlank(Tail(list))
         ELSE <<PyStrip(Head(list))>> \o StripNonBlank(Tail(list))

\* normalize_cuisines: strip every entry, drop blank ones, empty list -> None
NormalizeCuisines(o) ==
    IF ~IsSome(o) THEN None
    ELSE IF StripNonBlank(Val(o)) = <<>> THEN None ELSE Some(StripNonBlank(Val(o)))

\* RecommendPreferences(**raw): the validated preference object
RecommendPreferences(raw) ==
    [location     |-> NormalizeText(raw.location),
     min_rating   |-> raw.min_rating,
     min_cost     |-> raw.min_cost,
     max_cost     |-> raw.max_cost,
     cuisines     |-> NormalizeCuisines(raw.cuisines),
     rest_type    |-> NormalizeText(raw.rest_type),
     online_order |-> raw.online_order,
     book_table   |-> raw.book_table]

\* RecommendPreferences.to_filter_kwargs(limit)
ToFilterKwargs(prefs, limit) ==
    [limit            |-> limit,
     location         |-> IF IsSome(prefs.location) /\ Val(prefs.location) # <<>>
                          THEN prefs.location ELSE None,
     min_rate         |-> prefs.min_rating,
     min_cost         |-> prefs.min_cost,
     max_cost         |-> prefs.max_cost,
     cuisine_contains |-> None,
     rest_type        |-> IF IsSome(prefs.rest_type) /\ Val(prefs.rest_type) # <<>>
                          THEN prefs.rest_type ELSE None,
     online_order     |-> prefs.online_order,
     book_table       |-> prefs.book_table]

\* ------------------------------------------------------------------------
\* filter_service.get_recommendations
\* ------------------------------------------------------------------------
Max(a, b) == IF a > b THEN a ELSE b

OverFetchFactor == 3

OverFetchFloor == 50

Ids(list) == {list[i].id : i \in 1..Len(list)}

\* for r in part: append r unless its id was seen
RECURSIVE MergeNew(_, _)
MergeNew(merged, part) ==
    IF part = <<>> THEN merged
    ELSE IF Head(part).id \in Ids(merged) THEN MergeNew(merged, Tail(part))
         ELSE MergeNew(Append(merged, Head(part)), Tail(part))

\* for cuisine in cuisine_list: query, merge, break once len(merged) >= top_n
RECURSIVE MergeCuisines(_, _, _, _, _)
MergeCuisines(rows, kw, cuisines, merged, top_n) ==
    IF cuisines = <<>> THEN merged
    ELSE LET part == StoreQuery(rows, [kw EXCEPT !.cuisine_contains = Some(Head(cuisines))])
             next == MergeNew(merged, part)
         IN  IF Len(next) >= top_n THEN next
             ELSE MergeCuisines(rows, kw, Tail(cuisines), next, top_n)

GetRecommendations(rows, prefs, top_n) ==
    LET kw == ToFilterKwargs(prefs, Max(top_n * OverFetchFactor, OverFetchFloor))
    IN  IF (~IsSome(prefs.cuisines)) \/ Val(prefs.cuisines) = <<>>
        THEN Take(StoreQuery(rows, kw), top_n)
        ELSE Take(MergeCuisines(rows, kw, Val(prefs.cuisines), <<>>, top_n), top_n)

\* ------------------------------------------------------------------------
\* orchestrator
\* ------------------------------------------------------------------------
\* _restaurant_matches_preferences(r, prefs)
RestaurantMatchesPreferences(r, prefs) ==
    /\ (IsSome(prefs.location) /\ Val(prefs.location) # <<>>)
          => PyNormToken(PyStrip(Coalesce(r.location))) = PyNormToken(Val(prefs.location))
    /\ IsSome(prefs.min_rating)
          => ~(IsSome(r.rate) /\ Val(r.rate) < Val(prefs.min_rating))
    /\ IsSome(prefs.min_cost)
          => ~(IsSome(r.cost_for_two) /\ Val(r.cost_for_two) < Val(prefs.min_cost))
    /\ IsSome(prefs.max_cost)
          => ~(IsSome(r.cost_for_two) /\ Val(r.cost_for_two) > Val(prefs.max_cost))
    /\ (IsSome(prefs.cuisines) /\ Val(prefs.cuisines) # <<>>)
          => \E i \in 1..Len(Val(prefs.cuisines)) :
                /\ Val(prefs.cuisines)[i] # <<>>
                /\ Contains(PyLowerNoSpace(Coalesce(r.cuisines)),
                            PyNormToken(Val(prefs.cuisines)[i]))

RECURSIVE SelectSeq2(_, _)
SelectSeq2(list, prefs) ==
    IF list = <<>> THEN <<>>
    ELSE IF RestaurantMatchesPreferences(Head(list), prefs)
         THEN <<Head(list)>> \o SelectSeq2(Tail(list), prefs)
         ELSE SelectSeq2(Tail(list), prefs)

\* Step 1 of recommend(): candidates, strict post-filter, truncation
StrictStep(rows, prefs, top_n) ==
    Take(SelectSeq2(GetRecommendations(rows, prefs, top_n), prefs), top_n)

\* the preference objects of the three relaxation stages
PrefsNoCuisine(prefs) == [prefs EXCEPT !.cuisines = None]

\* a wrong second stage: the rating floor is kept
PrefsNoRating_KeepsRating(prefs) == [prefs EXCEPT !.cuisines = None]

PrefsNoRating(prefs) == [prefs EXCEPT !.cuisines = None, !.min_rating = None]

\* a wrong last stage: the cost bounds are kept
PrefsNoCost_KeepsCost(prefs) == [prefs EXCEPT !.cuisines = None, !.min_rating = None]

PrefsNoCost(prefs) ==
    [prefs EXCEPT !.cuisines = None, !.min_rating = None, !.min_cost = None, !.max_cost = None]

\* a wrong flag: set whenever the caller allows relaxation
RelaxedFlag_WheneverAllowed(strict, relax_if_empty) == relax_if_empty

\* relaxed = True as soon as the first relaxation stage is entered
RelaxedFlag(strict, relax_if_empty) == strict = <<>> /\ relax_if_empty

\* Steps 1-3 of recommend(): the strict step and the relaxation cascade.
\* calls is the number of get_recommendations calls made.
FilterCascade(rows, prefs, top_n, relax_if_empty) ==
    LET s0 == StrictStep(rows, prefs, top_n)
        go1 == s0 = <<>> /\ relax_if_empty
        s1 == IF go1 THEN GetRecommendations(rows, PrefsNoCuisine(prefs), top_n) ELSE s0
        go2 == s1 = <<>> /\ relax_if_empty
        s2 == IF go2 THEN GetRecommendations(rows, PrefsNoRating(prefs), top_n) ELSE s1
        go3 == s2 = <<>> /\ relax_if_empty
        s3 == IF go3 THEN GetRecommendations(rows, PrefsNoCost(prefs), top_n) ELSE s2
    IN  [restaurants |-> s3,
         relaxed     |-> RelaxedFlag(s0, relax_if_empty),
         calls       |-> 1 + (IF go1 THEN 1 ELSE 0) + (IF go2 THEN 1 ELSE 0)
                          + (IF go3 THEN 1 ELSE 0)]

\* the get_recommendations calls recommend() makes (lines 85, 103, 118, 133), in
\* order: the preference object each call is given, if the call is made
CascadePrefs(prefs) ==
    <<prefs, PrefsNoCuisine(prefs), PrefsNoRating(prefs), PrefsNoCost(prefs)>>

\* ------------------------------------------------------------------------
\* phase3_llm: response parser and retry limit
\* ------------------------------------------------------------------------
MAX_RETRIES == 2

\* parse_summary(raw_content): stripped text, "" for missing or blank content
ParseSummary(raw) == IF raw = <<>> THEN <<>> ELSE PyStrip(raw)

\* generate_summary: summary if summary else None
SummaryOrNone(raw) == IF ParseSummary(raw) # <<>> THEN Some(ParseSummary(raw)) ELSE None

\* ------------------------------------------------------------------------
\* phase5_enhancements.cache: the request key
\* ------------------------------------------------------------------------
\* A request body is a sequence of <<name, value>> pairs in the dict's insertion
\* order; the value is None (JSON null) or Some(v).

\* order of the characters (their code points), of strings, of the field names
CharCode(c) ==
    CASE c = "\t" -> 9 [] c = " " -> 32 [] c = "%" -> 37 [] c = "," -> 44
      [] c = "A" -> 65 [] c = "B" -> 66 [] c = "D" -> 68 [] c = "_" -> 95 [] c = "a" -> 97
      [] c = "b" -> 98 [] c = "c" -> 99 [] c = "d" -> 100 [] c = "x" -> 120

RECURSIVE StrLess(_, _)
StrLess(s, t) ==
    IF t = <<>> THEN FALSE
    ELSE IF s = <<>> THEN TRUE
    ELSE IF Head(s) = Head(t) THEN StrLess(Tail(s), Tail(t))
    ELSE CharCode(Head(s)) < CharCode(Head(t))

FieldNames ==
    <<"book_table", "cuisines", "location", "max_cost", "min_cost", "min_rating",
      "online_order", "rest_type", "top_n">>

NameRank(name) == CHOOSE i \in 1..Len(FieldNames) : FieldNames[i] = name

\* sorted(list of str)
RECURSIVE InsertStr(_, _)
InsertStr(sorted, x) ==
    IF sorted = <<>> THEN <<x>>
    ELSE IF StrLess(x, Head(sorted)) THEN <<x>> \o sorted
         ELSE <<Head(sorted)>> \o InsertStr(Tail(sorted), x)

RECURSIVE SortedStrs(_)
SortedStrs(list) ==
    IF list = <<>> THEN <<>> ELSE InsertStr(SortedStrs(SubSeq(list, 1, Len(list) - 1)), list[Len(list)])

\* a wrong canonical form: the cuisines keep the order of the request
CanonicalValue_Unsorted(k, v) == v

\* the value _canonical_params stores for key k
CanonicalValue(k, v) == IF k = "cuisines" THEN SortedStrs(v) ELSE v

\* _canonical_params(body): None values omitted, cuisines sorted
RECURSIVE CanonicalParams(_)
CanonicalParams(body) ==
    IF body = <<>> THEN <<>>
    ELSE LET k == Head(body)[1]
             o == Head(body)[2]
         IN  IF ~IsSome(o) THEN CanonicalParams(Tail(body))
             ELSE << <<k, Some(CanonicalValue(k, Val(o)))>> >> \o CanonicalParams(Tail(body))

\* json.dumps(canonical, sort_keys=True): the items in the order of their names
RECURSIVE InsertPair(_, _)
InsertPair(sorted, p) ==
    IF sorted = <<>> THEN <<p>>
    ELSE IF NameRank(p[1]) < NameRank(Head(sorted)[1]) THEN <<p>> \o sorted
         ELSE <<Head(sorted)>> \o InsertPair(Tail(sorted), p)

RECURSIVE JsonDumpsSorted(_)
JsonDumpsSorted(items) ==
    IF items = <<>> THEN <<>>
    ELSE InsertPair(JsonDumpsSorted(SubSeq(items, 1, Len(items) - 1)), items[Len(items)])

\* hashlib.sha256(blob).hexdigest(), taken as collision-free: the digest stands for
\* the blob it was computed from
Sha256(blob) == <<"sha256", blob>>

\* cache_key_from_request(body)
CacheKeyFromRequest(body) == Sha256(JsonDumpsSorted(CanonicalParams(body)))

\* ------------------------------------------------------------------------
\* phase5_enhancements.cache: RecommendationCache
\* ------------------------------------------------------------------------
\* list.remove(x): the first occurrence is removed (x must occur)
RECURSIVE ListRemove(_, _)
ListRemove(list, x) ==
    IF list = <<>> THEN <<>>
    ELSE IF Head(list) = x THEN Tail(list) ELSE <<Head(list)>> \o ListRemove(Tail(list), x)

InList(list, x) == \E i \in 1..Len(list) : list[i] = x

\* del d[k]
DictDel(d, k) == [x \in (DOMAIN d) \ {k} |-> d[x]]

\* d[k] = v
DictPut(d, k, v) == [x \in (DOMAIN d) \cup {k} |-> IF x = k THEN v ELSE d[x]]

\* __init__: self._max_size = max(1, max_size)
CacheMaxSize(max_size) == Max(1, max_size)

\* a wrong get: a read does not refresh the key
TouchOrder_NoRefresh(order, key) == order

\* get(key), the recency update: if key in self._order: remove; append
TouchOrder(order, key) ==
    Append(IF InList(order, key) THEN ListRemove(order, key) ELSE order, key)

\* get(key) run without interruption: the cache after the call
CacheAfterGet(c, key) ==
    IF key \notin DOMAIN c.data THEN c
    ELSE [c EXCEPT !.order = TouchOrder(c.order, key)]

\* get(key): the returned value
CacheGetResult(c, key) ==
    IF key \notin DOMAIN c.data THEN None ELSE Some(c.data[key])

\* a wrong eviction: the oldest key leaves the order list but stays in the data map
EvictOldest_KeepsData(c) == [c EXCEPT !.order = Tail(c.order)]

\* set(key, value), the eviction branch: oldest = self._order.pop(0); del self._data[oldest]
EvictOldest(c) ==
    [c EXCEPT !.order = Tail(c.order), !.data = DictDel(c.data, Head(c.order))]

\* a wrong set: the entry is not stored
CacheAfterSet_NotStored(c, key, value) == c

\* set(key, value) run without interruption: the cache after the call
CacheAfterSet(c, key, value) ==
    LET c1 == IF key \in DOMAIN c.data
              THEN [c EXCEPT !.order = ListRemove(c.order, key)]
              ELSE IF Cardinality(DOMAIN c.data) >= c.max /\ c.order # <<>>
                   THEN EvictOldest(c)
                   ELSE c
    IN  [c1 EXCEPT !.data = DictPut(c1.data, key, value), !.order = Append(c1.order, key)]

\* clear()
CacheAfterClear(c) == [c EXCEPT !.data = <<>>, !.order = <<>>]


\* ------------------------------------------------------------------------
\* phase5_enhancements.analytics
\* ------------------------------------------------------------------------
\* An event is a dict with the optional keys "location" and "cuisines": a record whose
\* field is None when the key is missing.

\* [str(c).strip() for c in cuisines if c]
RECURSIVE StripTruthy(_)
StripTruthy(list) ==
    IF list = <<>> THEN <<>>
    ELSE IF Head(list) = <<>> THEN StripTruthy(Tail(list))
         ELSE <<PyStrip(Head(list))>> \o StripTruthy(Tail(list))

\* body.get(name): the value of the key, None when the key is missing
DictGet(body, name) ==
    IF \E i \in 1..Len(body) : body[i][1] = name
    THEN body[CHOOSE i \in 1..Len(body) : body[i][1] = name][2]
    ELSE None

\* the dict log_recommend_usage builds from a body (lines 16-24)
UsageEvent(body) ==
    LET loc == DictGet(body, "location")
        cu == DictGet(body, "cuisines")
    IN  [location |-> IF IsSome(loc) /\ Val(loc) # <<>> THEN Some(PyStrip(Val(loc))) ELSE None,
         cuisines |-> IF IsSome(cu) /\ Val(cu) # <<>> THEN Some(StripTruthy(Val(cu))) ELSE None]

\* log_recommend_usage(body): the event is appended unless it has no key
LogRecommendUsage(log, body) ==
    LET event == UsageEvent(body)
    IN  IF IsSome(event.location) \/ IsSome(event.cuisines) THEN Append(log, event) ELSE log

\* counter[name] += 1 on a Counter kept as its items in insertion order
CounterAdd(counter, name) ==
    IF \E i \in 1..Len(counter) : counter[i].name = name
    THEN [i \in 1..Len(counter) |->
            IF counter[i].name = name
            THEN [name |-> name, count |-> counter[i].count + 1] ELSE counter[i]]
    ELSE Append(counter, [name |-> name, count |-> 1])

\* get_popular lines 39-41: the locations of the events, empty ones skipped
RECURSIVE CountLocations(_, _)
CountLocations(log, counter) ==
    IF log = <<>> THEN counter
    ELSE LET loc == Head(log).location
         IN  CountLocations(Tail(log),
                            IF IsSome(loc) /\ Val(loc) # <<>>
                            THEN CounterAdd(counter, Val(loc)) ELSE counter)

\* for c in ev.get("cuisines") or []: if c: cuisine_counter[c] += 1
RECURSIVE CountList(_, _)
CountList(list, counter) ==
    IF list = <<>> THEN counter
    ELSE CountList(Tail(list),
                   IF Head(list) # <<>> THEN CounterAdd(counter, Head(list)) ELSE counter)

\* get_popular lines 39, 42-44
RECURSIVE CountCuisines(_, _)
CountCuisines(log, counter) ==
    IF log = <<>> THEN counter
    ELSE CountCuisines(Tail(log), CountList(Coalesce(Head(log).cuisines), counter))

\* sorted(items, key=count, reverse=True): stable, equal counts keep insertion order
RECURSIVE InsertByCount(_, _)
InsertByCount(sorted, item) ==
    IF sorted = <<>> THEN <<item>>
    ELSE IF item.count > Head(sorted).count THEN <<item>> \o sorted
         ELSE <<Head(sorted)>> \o InsertByCount(Tail(sorted), item)

RECURSIVE SortByCount(_)
SortByCount(counter) ==
    IF counter = <<>> THEN <<>>
    ELSE InsertByCount(SortByCount(SubSeq(counter, 1, Len(counter) - 1)),
                       counter[Len(counter)])

\* Counter.most_common(n)
MostCommon(counter, n) == Take(SortByCount(counter), IF n < 0 THEN 0 ELSE n)

\* get_popular(top_locations, top_cuisines)
GetPopular(log, top_locations, top_cuisines) ==
    [locations |-> MostCommon(CountLocations(log, <<>>), top_locations),
     cuisines  |-> MostCommon(CountCuisines(log, <<>>), top_cuisines)]

\* clear_events()
ClearedEvents == <<>>
\* ------------------------------------------------------------------------
\* Input domains
\* ------------------------------------------------------------------------
Row(id, loc, cu, rt, rate, cost, votes, oo, bt) ==
    [id |-> id, location |-> loc, cuisines |-> cu, rest_type |-> rt, rate |-> rate,
     cost_for_two |-> cost, votes |-> votes, online_order |-> oo, book_table |-> bt]

Catalogue ==
    << Row(1, Some(<<"a", " ", "b">>), Some(<<"c", ",", " ", "d">>), Some(<<"A", "b">>),
            Some(41), Some(800), Some(10), 1, 1),
       Row(2, Some(<<"a", "b">>), Some(<<"d">>), Some(<<"b">>),
            None, None, None, 0, 0),
       Row(3, Some(<<"B">>), None, None,
            Some(30), Some(300), Some(5), 1, 0),
       Row(4, Some(<<"a", "\t", "b">>), Some(<<"x", " ", "c">>), Some(<<"a">>),
            Some(41), Some(400), None, 0, 1) >>

RECURSIVE SubSeqsOf(_)
SubSeqsOf(list) ==
    IF list = <<>> THEN {<<>>}
    ELSE LET rest == SubSeqsOf(Tail(list))
         IN  rest \cup {<<Head(list)>> \o t : t \in rest}

StoreDomain == SubSeqsOf(Catalogue)

RawPrefsDomain ==
    [location     : {None, Some(<<"A", "b">>), Some(<<" ", "B">>)},
     min_rating   : {None, Some(40)},
     min_cost     : {None, Some(500)},
     max_cost     : {None, Some(500)},
     cuisines     : {None, Some(<< <<"c">> >>), Some(<< <<"x", "x">>, <<" ", "D">> >>)},
     rest_type    : {None, Some(<<"b">>), Some(<<"_">>)},
     online_order : {None, Some(TRUE)},
     book_table   : {None, Some(FALSE)}]

MaxTopN == 2

TopNDomain == 1..MaxTopN

\* what the completion endpoint can answer: text, blank text
ReplyDomain == {<<"a">>, <<" ">>}

\* ------------------------------------------------------------------------
\* State
\* ------------------------------------------------------------------------
VARIABLES
    store,        \* rows of the restaurants table, in id order
    pc,           \* position of the request being processed
    caller,       \* "direct" (recommend called by a client) or "api" (the handler)
    req,          \* arguments of recommend: prefs, top_n, relax
    filtered,     \* filtered_restaurants
    relaxed,      \* relaxed
    summary,      \* summary
    resp,         \* the returned response object, None while there is none
    sumCalls,     \* history: arguments of each generate_summary invocation
    attempts,     \* completion attempts made by create_completion
    llmOk,        \* history: completion attempts that returned
    storeFailed,  \* history: 0, or the get_recommendations call (1..4) that raised
    cData,        \* RecommendationCache._data
    cOrder,       \* RecommendationCache._order
    cMax,         \* RecommendationCache._max_size
    clock,        \* history: number of cache calls made
    lastAccess,   \* history: for each stored key, the clock of its latest get hit or set
    lastCall,     \* history: the latest cache call and the keys it removed
    body,         \* handler: the request body, None outside a request
    key,          \* handler: cache key of the request
    fromCache,    \* history: the response was served from the cache
    setCalls,     \* history: cache writes made for the current request
    connOpen,     \* handler: the request's store connection is open
    tpc,          \* per thread: position inside get / set
    targ,         \* per thread: key and value of the call
    terr,         \* per thread: the exception the call ended with, "none" otherwise
    b1, b2,       \* two request bodies
    k1, k2,       \* their cache keys
    kpc,          \* "start" before, "done" after the keys are computed
    qkw,          \* keyword arguments of a RestaurantStore.query call
    qres,         \* the list the call returned
    qpc,          \* "start" before, "done" after the call
    cin,          \* argument of _parse_cost (a string)
    cout,         \* its result
    cpc,          \* "start" before, "done" after the call
    rrow,         \* argument of normalize_row (a raw dataset row)
    rout,         \* its result: None or Some(record)
    rpc,          \* "start" before, "done" after the call
    table,        \* pipeline: the restaurants table (normalized records, insertion order)
    praw,         \* pipeline: number of loaded raw rows the normalizer has not reached yet
    pnorm,        \* pipeline: normalize_restaurants' list `normalized`
    pseen,        \* pipeline: normalize_restaurants' set `seen`
    pclear,       \* pipeline: clear_before of the current run
    ppc,          \* pipeline: position of the current run
    phist,        \* history: each raw row of the current run with normalize_row's result
    runs,         \* history: pipeline runs started
    tbefore,      \* history: the table when the current run started
    presult,      \* pipeline: the summary dict the last run returned, None before
    calls,        \* history: the preference object of each get_recommendations call of the request
    events,       \* analytics._usage_events
    popular,      \* the dict the last get_popular call returned, None before
    opens,        \* history: store connections the current request has opened
    gprefs,       \* get_recommendations / strict recommend: preferences
    gtopn,        \* top_n
    graw,         \* the list get_recommendations returned
    gqueried,     \* history: the cuisines the merge loop queried, in order
    gfiltered,    \* recommend(relax_if_empty=False): filtered_restaurants
    gpc           \* "start" before, "done" after the call

recVars == <<pc, caller, req, filtered, relaxed, summary, resp, sumCalls, attempts,
             llmOk, storeFailed>>

cacheVars == <<cData, cOrder, cMax>>

histVars == <<clock, lastAccess, lastCall>>

apiVars == <<body, key, fromCache, setCalls, connOpen>>

thrVars == <<tpc, targ, terr>>

keyVars == <<b1, b2, k1, k2, kpc>>

qryVars == <<qkw, qres, qpc>>

normVars == <<cin, cout, cpc, rrow, rout, rpc>>

pipeVars == <<table, praw, pnorm, pseen, pclear, ppc, phist, runs>>

runVars == <<tbefore, presult>>

logVars == <<calls>>

anaVars == <<events, popular>>

connVars == <<opens>>

mergeVars == <<gprefs, gtopn, graw, gqueried, gfiltered, gpc>>

vars == <<store, recVars, cacheVars, histVars, apiVars, thrVars, keyVars, qryVars, normVars,
          pipeVars, runVars, logVars, anaVars, connVars, mergeVars>>

Cache == [data |-> cData, order |-> cOrder, max |-> cMax]

EmptyRaw ==
    [location |-> None, min_rating |-> None, min_cost |-> None, max_cost |-> None,
     cuisines |-> None, rest_type |-> None, online_order |-> None, book_table |-> None]

NoReq == [prefs |-> RecommendPreferences(EmptyRaw), top_n |-> 1, relax |-> FALSE]

NoCall == [op |-> "none", key |-> "none", value |-> "none", present |-> FALSE, removed |-> {}]

InitRec ==
    /\ pc = "idle"
    /\ caller = "direct"
    /\ req = NoReq
    /\ filtered = <<>>
    /\ relaxed = FALSE
    /\ summary = None
    /\ resp = None
    /\ sumCalls = <<>>
    /\ attempts = 0
    /\ llmOk = 0
    /\ storeFailed = 0

InitCache(max_size) ==
    /\ cData = <<>>
    /\ cOrder = <<>>
    /\ cMax = CacheMaxSize(max_size)

InitHist ==
    /\ clock = 0
    /\ lastAccess = <<>>
    /\ lastCall = NoCall

InitApi ==
    /\ body = None
    /\ key = None
    /\ fromCache = FALSE
    /\ setCalls = 0
    /\ connOpen = FALSE

InitThreads ==
    /\ tpc = <<>>
    /\ targ = <<>>
    /\ terr = <<>>

InitKeys ==
    /\ b1 = <<>>
    /\ b2 = <<>>
    /\ k1 = None
    /\ k2 = None
    /\ kpc = "start"

InitQuery ==
    /\ qkw = <<>>
    /\ qres = <<>>
    /\ qpc = "start"

InitNorm ==
    /\ cin = <<>>
    /\ cout = None
    /\ cpc = "start"
    /\ rrow = <<>>
    /\ rout = None
    /\ rpc = "start"

InitPipeline ==
    /\ table = <<>>
    /\ praw = 0
    /\ pnorm = <<>>
    /\ pseen = {}
    /\ pclear = FALSE
    /\ ppc = "idle"
    /\ phist = <<>>
    /\ runs = 0
    /\ tbefore = <<>>
    /\ presult = None

InitLog == calls = <<>>

InitAnalytics ==
    /\ events = <<>>
    /\ popular = None

InitConn ==
    /\ opens = 0

InitMerge ==
    /\ gprefs = RecommendPreferences(EmptyRaw)
    /\ gtopn = 1
    /\ graw = <<>>
    /\ gqueried = <<>>
    /\ gfiltered = <<>>
    /\ gpc = "start"

\* ------------------------------------------------------------------------
\* recommend(), one request at a time (specification Spec)
\* ------------------------------------------------------------------------
Init ==
    /\ store \in StoreDomain
    /\ InitRec
    /\ InitCache(1)
    /\ InitHist
    /\ InitApi
    /\ InitThreads
    /\ InitKeys
    /\ InitQuery
    /\ InitNorm
    /\ InitPipeline
    /\ InitLog
    /\ InitAnalytics
    /\ InitConn
    /\ InitMerge

\* recommend(store, RecommendPreferences(**raw), top_n, relax_if_empty) is entered
EnterRecommend(raw, n, rx, who) ==
    /\ caller' = who
    /\ req' = [prefs |-> RecommendPreferences(raw), top_n |-> n, relax |-> rx]
    /\ pc' = "filter"
    /\ filtered' = <<>>
    /\ relaxed' = FALSE
    /\ summary' = None
    /\ resp' = None
    /\ sumCalls' = <<>>
    /\ attempts' = 0
    /\ llmOk' = 0
    /\ storeFailed' = 0
    /\ calls' = <<>>

\* a client calls recommend directly
DirectCall ==
    /\ pc = "idle"
    /\ \E raw \in RawPrefsDomain, n \in TopNDomain, rx \in BOOLEAN :
          EnterRecommend(raw, n, rx, "direct")
    /\ UNCHANGED <<store, cacheVars, histVars, apiVars, thrVars, keyVars, qryVars, normVars, pipeVars, runVars, anaVars, connVars, mergeVars>>

\* recommend, steps 1-3: strict step and relaxation cascade, no store error
Filter ==
    /\ pc = "filter"
    /\ \E out \in {FilterCascade(store, req.prefs, req.top_n, req.relax)} :
          /\ filtered' = out.restaurants
          /\ relaxed' = out.relaxed
          /\ calls' = SubSeq(CascadePrefs(req.prefs), 1, out.calls)
    /\ pc' = "summary"
    /\ UNCHANGED <<store, caller, req, summary, resp, sumCalls, attempts, llmOk, storeFailed>>
    /\ UNCHANGED <<cacheVars, histVars, apiVars, thrVars, keyVars, qryVars, normVars, pipeVars, runVars, anaVars, connVars, mergeVars>>

\* a wrong recommend: a store error is caught and treated as an empty result
FilterStoreError_Swallowed ==
    /\ pc = "filter"
    /\ \E k \in 1..FilterCascade(store, req.prefs, req.top_n, req.relax).calls :
          /\ storeFailed' = k
          /\ calls' = SubSeq(CascadePrefs(req.prefs), 1, k - 1)
    /\ filtered' = <<>>
    /\ pc' = "summary"
    /\ UNCHANGED <<store, caller, req, relaxed, summary, resp, sumCalls, attempts, llmOk>>
    /\ UNCHANGED <<cacheVars, histVars, apiVars, thrVars, keyVars, qryVars, normVars, pipeVars, runVars, anaVars, connVars, mergeVars>>

\* a wrong handler: the store is not closed when recommend raises
FilterStoreError_LeavesOpen ==
    /\ pc = "filter"
    /\ \E k \in 1..FilterCascade(store, req.prefs, req.top_n, req.relax).calls :
          /\ storeFailed' = k
          /\ calls' = SubSeq(CascadePrefs(req.prefs), 1, k - 1)
    /\ pc' = "error"
    /\ UNCHANGED <<store, caller, req, filtered, relaxed, summary, resp, sumCalls, attempts, llmOk>>
    /\ UNCHANGED <<cacheVars, histVars, apiVars, thrVars, keyVars, qryVars, normVars, pipeVars, runVars, anaVars, connVars, mergeVars>>

\* the k-th get_recommendations call of the cascade raises.  recommend has no handler:
\* the exception leaves recommend and, in the handler, passes the finally clause
\* (store.close()) on its way out.
FilterStoreError ==
    /\ pc = "filter"
    /\ \E k \in 1..FilterCascade(store, req.prefs, req.top_n, req.relax).calls :
          /\ storeFailed' = k
          /\ calls' = SubSeq(CascadePrefs(req.prefs), 1, k - 1)
    /\ pc' = "error"
    /\ connOpen' = FALSE
    /\ UNCHANGED <<store, caller, req, filtered, relaxed, summary, resp, sumCalls, attempts, llmOk>>
    /\ UNCHANGED <<cacheVars, histVars, body, key, fromCache, setCalls, thrVars, keyVars, qryVars, normVars, pipeVars, runVars, anaVars, connVars, mergeVars>>

\* recommend line 137 with an empty list: the summarizer is not called
SkipSummary ==
    /\ pc = "summary"
    /\ filtered = <<>>
    /\ summary' = None
    /\ pc' = "return"
    /\ UNCHANGED <<store, caller, req, filtered, relaxed, resp, sumCalls, attempts, llmOk, storeFailed>>
    /\ UNCHANGED <<cacheVars, histVars, apiVars, thrVars, keyVars, qryVars, normVars, pipeVars, runVars, logVars, anaVars, connVars, mergeVars>>

\* a wrong _get_llm_summary: the summarizer is given the last relaxation stage's preferences
GetLlmSummary_RelaxedPrefs ==
    /\ pc = "summary"
    /\ filtered # <<>>
    /\ \E importable \in BOOLEAN, keyPresent \in BOOLEAN :
          /\ sumCalls' = IF importable
                         THEN Append(sumCalls, [restaurants |-> filtered,
                                                preferences |-> PrefsNoCost(req.prefs)])
                         ELSE sumCalls
          /\ pc' = IF importable /\ keyPresent THEN "llm" ELSE "return"
    /\ summary' = None
    /\ UNCHANGED <<store, caller, req, filtered, relaxed, resp, attempts, llmOk, storeFailed>>
    /\ UNCHANGED <<cacheVars, histVars, apiVars, thrVars, keyVars, qryVars, normVars, pipeVars, runVars, logVars, anaVars, connVars, mergeVars>>

\* _get_llm_summary and generate_summary up to the call of create_completion.
\* importable: phase3_llm can be imported; keyPresent: get_api_key() returns a key.
GetLlmSummary ==
    /\ pc = "summary"
    /\ filtered # <<>>
    /\ \E importable \in BOOLEAN, keyPresent \in BOOLEAN :
          /\ sumCalls' = IF importable
                         THEN Append(sumCalls, [restaurants |-> filtered, preferences |-> req.prefs])
                         ELSE sumCalls
          /\ pc' = IF importable /\ keyPresent THEN "llm" ELSE "return"
    /\ summary' = None
    /\ UNCHANGED <<store, caller, req, filtered, relaxed, resp, attempts, llmOk, storeFailed>>
    /\ UNCHANGED <<cacheVars, histVars, apiVars, thrVars, keyVars, qryVars, normVars, pipeVars, runVars, logVars, anaVars, connVars, mergeVars>>

\* one iteration of create_completion's loop that returns content (possibly none),
\* then parse_summary and the return of generate_summary
CompletionReturns ==
    /\ pc = "llm"
    /\ attempts < MAX_RETRIES + 1
    /\ attempts' = attempts + 1
    /\ llmOk' = llmOk + 1
    /\ \E content \in ReplyDomain \cup {<<>>} :
          summary' = SummaryOrNone(IF content = <<>> THEN <<>> ELSE PyStrip(content))
    /\ pc' = "return"
    /\ UNCHANGED <<store, caller, req, filtered, relaxed, resp, sumCalls, storeFailed>>
    /\ UNCHANGED <<cacheVars, histVars, apiVars, thrVars, keyVars, qryVars, normVars, pipeVars, runVars, logVars, anaVars, connVars, mergeVars>>

\* a wrong generate_summary: the exception of the last attempt is not caught
CompletionRaises_Propagates ==
    /\ pc = "llm"
    /\ attempts < MAX_RETRIES + 1
    /\ attempts' = attempts + 1
    /\ pc' = IF attempts = MAX_RETRIES THEN "error" ELSE "llm"
    /\ summary' = None
    /\ UNCHANGED <<store, caller, req, filtered, relaxed, resp, sumCalls, llmOk, storeFailed>>
    /\ UNCHANGED <<cacheVars, histVars, apiVars, thrVars, keyVars, qryVars, normVars, pipeVars, runVars, logVars, anaVars, connVars, mergeVars>>

\* one iteration of create_completion's loop that raises: retried until attempt
\* MAX_RETRIES, then re-raised and caught by generate_summary, which returns None
CompletionRaises ==
    /\ pc = "llm"
    /\ attempts < MAX_RETRIES + 1
    /\ attempts' = attempts + 1
    /\ pc' = IF attempts = MAX_RETRIES THEN "return" ELSE "llm"
    /\ summary' = None
    /\ UNCHANGED <<store, caller, req, filtered, relaxed, resp, sumCalls, llmOk, storeFailed>>
    /\ UNCHANGED <<cacheVars, histVars, apiVars, thrVars, keyVars, qryVars, normVars, pipeVars, runVars, logVars, anaVars, connVars, mergeVars>>

\* recommend lines 141-145
Return ==
    /\ pc = "return"
    /\ resp' = Some([restaurants |-> filtered, summary |-> summary, relaxed |-> relaxed])
    /\ pc' = IF caller = "api" THEN "cacheset" ELSE "done"
    /\ UNCHANGED <<store, caller, req, filtered, relaxed, summary, sumCalls, attempts, llmOk, storeFailed>>
    /\ UNCHANGED <<cacheVars, histVars, apiVars, thrVars, keyVars, qryVars, normVars, pipeVars, runVars, logVars, anaVars, connVars, mergeVars>>

\* the caller has taken the response (or the exception); the next request may start
Finish ==
    /\ pc \in {"done", "error", "popular"}
    /\ pc' = "idle"
    /\ caller' = "direct"
    /\ req' = NoReq
    /\ filtered' = <<>>
    /\ relaxed' = FALSE
    /\ summary' = None
    /\ resp' = None
    /\ sumCalls' = <<>>
    /\ attempts' = 0
    /\ llmOk' = 0
    /\ storeFailed' = 0
    /\ calls' = <<>>
    /\ body' = None
    /\ key' = None
    /\ fromCache' = FALSE
    /\ setCalls' = 0
    /\ connOpen' = FALSE
    /\ popular' = None
    /\ opens' = 0
    /\ UNCHANGED <<store, cacheVars, histVars, thrVars, keyVars, qryVars, normVars, pipeVars, runVars, events, mergeVars>>

Next ==
    \/ DirectCall
    \/ Filter
    \/ FilterStoreError
    \/ SkipSummary
    \/ GetLlmSummary
    \/ CompletionReturns
    \/ CompletionRaises
    \/ Return
    \/ Finish

Spec == Init /\ [][Next]_vars

\* ------------------------------------------------------------------------
\* Properties of recommend (specification Spec)
\* ------------------------------------------------------------------------
\* recommend has finished steps 1-3 of the current request
Filtered == pc \in {"summary", "llm", "return", "done", "cacheset"}

\* a record satisfies a preference set: every bound is null-inclusive, location is
\* compared lowercased without whitespace, a cuisine or rest_type preference is a
\* case-insensitive substring of the record's field
SatisfiesLocation(r, prefs) ==
    IsSome(prefs.location) => PyNormToken(Coalesce(r.location)) = PyNormToken(Val(prefs.location))

SatisfiesBounds(r, prefs) ==
    /\ (IsSome(prefs.min_rating) /\ IsSome(r.rate)) => Val(r.rate) >= Val(prefs.min_rating)
    /\ (IsSome(prefs.min_cost) /\ IsSome(r.cost_for_two)) => Val(r.cost_for_two) >= Val(prefs.min_cost)
    /\ (IsSome(prefs.max_cost) /\ IsSome(r.cost_for_two)) => Val(r.cost_for_two) <= Val(prefs.max_cost)

SatisfiesCuisines(r, prefs) ==
    IsSome(prefs.cuisines) =>
        \E i \in 1..Len(Val(prefs.cuisines)) :
            Contains(PyLowerNoSpace(Coalesce(r.cuisines)), PyNormToken(Val(prefs.cuisines)[i]))

SatisfiesRestType(r, prefs) ==
    IsSome(prefs.rest_type) =>
        /\ IsSome(r.rest_type)
        /\ Contains(Lower(Val(r.rest_type)), Lower(Val(prefs.rest_type)))

SatisfiesFlags(r, prefs) ==
    /\ IsSome(prefs.online_order) => (r.online_order = 1) = Val(prefs.online_order)
    /\ IsSome(prefs.book_table) => (r.book_table = 1) = Val(prefs.book_table)

Satisfies(r, prefs) ==
    /\ SatisfiesLocation(r, prefs)
    /\ SatisfiesBounds(r, prefs)
    /\ SatisfiesCuisines(r, prefs)
    /\ SatisfiesRestType(r, prefs)
    /\ SatisfiesFlags(r, prefs)

\* C4: with relax_if_empty = false, relaxed is false, every returned record satisfies
\* every preference that was set, and the list is empty when no store record does.
C4_StrictResultsSatisfyPreferences ==
    (Filtered /\ ~req.relax) =>
        /\ relaxed = FALSE
        /\ \A i \in 1..Len(filtered) : Satisfies(filtered[i], req.prefs)
        /\ (\A r \in SeqRange(store) : ~Satisfies(r, req.prefs)) => filtered = <<>>

\* C4 without the rest_type preference: what the strict post-filter itself guarantees
C4_StrictResultsExceptRestType ==
    (Filtered /\ ~req.relax) =>
        /\ relaxed = FALSE
        /\ \A i \in 1..Len(filtered) :
              /\ SatisfiesLocation(filtered[i], req.prefs)
              /\ SatisfiesBounds(filtered[i], req.prefs)
              /\ SatisfiesCuisines(filtered[i], req.prefs)
              /\ SatisfiesFlags(filtered[i], req.prefs)

NoKwargs ==
    [limit |-> 1, location |-> None, min_rate |-> None, min_cost |-> None, max_cost |-> None,
     cuisine_contains |-> None, rest_type |-> None, online_order |-> None, book_table |-> None]

\* the store accepts row r for the preferences' location, rest_type, online_order and
\* book_table (the constraints no relaxation stage drops)
StoreMatchesKept(r, prefs) ==
    StoreWhere(r, [NoKwargs EXCEPT !.location = prefs.location,
                                   !.rest_type = prefs.rest_type,
                                   !.online_order = prefs.online_order,
                                   !.book_table = prefs.book_table])

\* the store accepts row r for the preferences' location alone
StoreMatchesLocationOnly(r, prefs) ==
    StoreWhere(r, [NoKwargs EXCEPT !.location = prefs.location])

\* the store accepts row r for the full preference set (any one of the cuisines)
StoreMatchesFull(r, prefs) ==
    LET kw == ToFilterKwargs(prefs, 1)
    IN  IF IsSome(prefs.cuisines)
        THEN \E i \in 1..Len(Val(prefs.cuisines)) :
                StoreWhere(r, [kw EXCEPT !.cuisine_contains = Some(Val(prefs.cuisines)[i])])
        ELSE StoreWhere(r, kw)

\* C5 as stated: relax_if_empty = true, no record matches the full constraints, some
\* record matches the location alone: the list is non-empty and relaxed is true.
C5_LocationOnlyGivesResults ==
    (/\ Filtered
     /\ req.relax
     /\ \A r \in SeqRange(store) : ~StoreMatchesFull(r, req.prefs)
     /\ \E r \in SeqRange(store) : StoreMatchesLocationOnly(r, req.prefs))
        => (filtered # <<>> /\ relaxed = TRUE)

\* C5 amended: relax_if_empty = true, no record matches the full constraints, some
\* record matches location, rest_type, online_order and book_table together: the list
\* is non-empty and relaxed is true.
C5_KeptConstraintsGiveResults ==
    (/\ Filtered
     /\ req.relax
     /\ \A r \in SeqRange(store) : ~StoreMatchesFull(r, req.prefs)
     /\ \E r \in SeqRange(store) : StoreMatchesKept(r, req.prefs))
        => (filtered # <<>> /\ relaxed = TRUE)

C5_Witness ==
    /\ pc = "done"
    /\ req.relax
    /\ IsSome(req.prefs.location) /\ IsSome(req.prefs.rest_type) /\ IsSome(req.prefs.min_cost)
    /\ \A r \in SeqRange(store) : ~StoreMatchesFull(r, req.prefs)
    /\ \E r \in SeqRange(store) : StoreMatchesKept(r, req.prefs)
    /\ Val(resp).restaurants # <<>>
    /\ Val(resp).relaxed

\* C6: relaxed is true exactly when relax_if_empty is true and the strict step gave
\* zero results, also when every relaxation stage gave zero results too.
C6_RelaxedIffRelaxationAttempted ==
    /\ Filtered => (relaxed = (req.relax /\ StrictStep(store, req.prefs, req.top_n) = <<>>))
    /\ (IsSome(resp) /\ ~fromCache) => Val(resp).relaxed = relaxed

C6_Witness ==
    /\ pc = "done"
    /\ Val(resp).relaxed
    /\ Val(resp).restaurants = <<>>
    /\ store # <<>>

\* C7: generate_summary is invoked at most once per request, only after filtering has
\* finished, with the returned list and the original preferences; an empty list means
\* no invocation and a null summary.
C7_SummarizerOnceOnFinalList ==
    /\ Len(sumCalls) <= 1
    /\ sumCalls # <<>> =>
          /\ pc \in {"llm", "return", "done", "cacheset"}
          /\ sumCalls[1].restaurants = filtered
          /\ sumCalls[1].preferences = req.prefs
    /\ (Filtered /\ pc # "summary" /\ filtered = <<>>) => (sumCalls = <<>> /\ summary = None)
    /\ (IsSome(resp) /\ ~fromCache) =>
          /\ Val(resp).restaurants = filtered
          /\ Val(resp).restaurants = <<>> => Val(resp).summary = None

C7_Witness ==
    /\ pc = "done"
    /\ Len(sumCalls) = 1
    /\ Val(resp).relaxed
    /\ IsSome(req.prefs.cuisines)
    /\ IsSome(Val(resp).summary)

\* C8: a summarizer failure never fails the request: at most MAX_RETRIES + 1 attempts,
\* none after the first success, and when all fail the summary is null while the
\* restaurants list and the relaxed flag are returned unchanged.
C8_SummarizerFailureIsNoSummary ==
    /\ attempts <= MAX_RETRIES + 1
    /\ llmOk <= 1
    /\ llmOk = 1 => pc # "llm"
    /\ pc = "error" => storeFailed # 0
    /\ IsSome(summary) => PyStrip(Val(summary)) # <<>>
    /\ (pc \in {"return", "done", "cacheset"} /\ llmOk = 0) => summary = None
    /\ (pc = "done" /\ attempts > llmOk) =>
          LET out == FilterCascade(store, req.prefs, req.top_n, req.relax)
          IN  /\ Val(resp).restaurants = out.restaurants
              /\ Val(resp).relaxed = out.relaxed

C8_Witness ==
    /\ pc = "done"
    /\ attempts = MAX_RETRIES + 1
    /\ llmOk = 0
    /\ Val(resp).restaurants # <<>>
    /\ Val(resp).summary = None

\* ------------------------------------------------------------------------
\* RecommendationCache used by one caller at a time (specification SpecCache)
\* ------------------------------------------------------------------------
MaxCap == 3

MaxOps == 5

CacheKeyDomain == {"k1", "k2", "k3"}

CacheValueDomain == {"v1", "v2"}

InitCacheSpec ==
    /\ store = <<>>
    /\ InitRec
    /\ \E max_size \in 0..MaxCap : InitCache(max_size)
    /\ InitHist
    /\ InitApi
    /\ InitThreads
    /\ InitKeys
    /\ InitQuery
    /\ InitNorm
    /\ InitPipeline
    /\ InitLog
    /\ InitAnalytics
    /\ InitConn
    /\ InitMerge

\* the bookkeeping of one cache call: the call, the keys it removed, the access times
Recorded(op, k, v, touched) ==
    /\ clock' = clock + 1
    /\ lastCall' = [op |-> op, key |-> k, value |-> v, present |-> k \in DOMAIN cData,
                    removed |-> (DOMAIN cData) \ (DOMAIN cData')]
    /\ lastAccess' = [x \in DOMAIN cData' |->
                        IF x = k /\ touched THEN clock + 1 ELSE lastAccess[x]]

\* cache.get(k)
CacheGet ==
    /\ clock < MaxOps
    /\ \E k \in CacheKeyDomain :
          /\ cData' = CacheAfterGet(Cache, k).data
          /\ cOrder' = CacheAfterGet(Cache, k).order
          /\ Recorded("get", k, "none", k \in DOMAIN cData)
    /\ UNCHANGED <<store, recVars, cMax, apiVars, thrVars, keyVars, qryVars, normVars, pipeVars, runVars, logVars, anaVars, connVars, mergeVars>>

\* cache.set(k, v)
CacheSet ==
    /\ clock < MaxOps
    /\ \E k \in CacheKeyDomain, v \in CacheValueDomain :
          /\ cData' = CacheAfterSet(Cache, k, v).data
          /\ cOrder' = CacheAfterSet(Cache, k, v).order
          /\ Recorded("set", k, v, TRUE)
    /\ UNCHANGED <<store, recVars, cMax, apiVars, thrVars, keyVars, qryVars, normVars, pipeVars, runVars, logVars, anaVars, connVars, mergeVars>>

\* cache.clear()
CacheClear ==
    /\ clock < MaxOps
    /\ cData' = CacheAfterClear(Cache).data
    /\ cOrder' = CacheAfterClear(Cache).order
    /\ Recorded("clear", "none", "none", FALSE)
    /\ UNCHANGED <<store, recVars, cMax, apiVars, thrVars, keyVars, qryVars, normVars, pipeVars, runVars, logVars, anaVars, connVars, mergeVars>>

NextCache ==
    \/ CacheGet
    \/ CacheSet
    \/ CacheClear

SpecCache == InitCacheSpec /\ [][NextCache]_vars

\* C1: a set of an absent key while max_size entries are stored removes exactly the
\* entry whose latest access (get hit or set) is the oldest, and keeps every other one.
C1_SetEvictsLeastRecentlyUsed ==
    [][(/\ lastCall'.op = "set"
        /\ clock' = clock + 1
        /\ lastCall'.key \notin DOMAIN cData
        /\ Cardinality(DOMAIN cData) = cMax)
          => \E victim \in DOMAIN cData :
                /\ \A o \in DOMAIN cData : lastAccess[victim] <= lastAccess[o]
                /\ DOMAIN cData' = ((DOMAIN cData) \ {victim}) \cup {lastCall'.key}
                /\ \A o \in (DOMAIN cData) \ {victim} : cData'[o] = cData[o]]_vars

\* a full cache of at least two entries, one read after both were written, then a set
\* of a new key that removed an entry
C1_Witness ==
    /\ lastCall.op = "set"
    /\ lastCall.removed # {}
    /\ cMax >= 2
    /\ Cardinality(DOMAIN cData) = cMax
    /\ \E x \in DOMAIN cData : x # lastCall.key /\ lastAccess[x] = clock - 1

\* ------------------------------------------------------------------------
\* RecommendationCache shared by request threads (specification SpecThreads)
\* ------------------------------------------------------------------------
\* The methods hold no lock.  A thread runs one statement of get or set at a time and
\* may be preempted between statements; tpc names the source line it is about to run.
NThreads == 2

MaxOrderLen == 3

ThreadIds == 1..NThreads

ThreadKeyDomain == {"k1", "k2"}

InitThreadSpec ==
    /\ store = <<>>
    /\ InitRec
    /\ \E max_size \in 1..2 : InitCache(max_size)
    /\ InitHist
    /\ InitApi
    /\ tpc = [t \in ThreadIds |-> "idle"]
    /\ targ = [t \in ThreadIds |-> [key |-> "none", value |-> "none", oldest |-> "none"]]
    /\ terr = [t \in ThreadIds |-> "none"]
    /\ InitKeys
    /\ InitQuery
    /\ InitNorm
    /\ InitPipeline
    /\ InitLog
    /\ InitAnalytics
    /\ InitConn
    /\ InitMerge

ThreadFrame == UNCHANGED <<store, recVars, cMax, histVars, apiVars, keyVars, qryVars, normVars, pipeVars, runVars, logVars, anaVars, connVars, mergeVars>>

\* a request thread enters get(key) or set(key, value)
ThreadCall ==
    /\ Len(cOrder) < MaxOrderLen
    /\ \E t \in ThreadIds, k \in ThreadKeyDomain, op \in {"get43", "set53"} :
          /\ tpc[t] \in {"idle", "failed"}
          /\ tpc' = [tpc EXCEPT ![t] = op]
          /\ targ' = [targ EXCEPT ![t] = [key |-> k, value |-> "v1", oldest |-> "none"]]
          /\ terr' = [terr EXCEPT ![t] = "none"]
    /\ UNCHANGED <<cData, cOrder>>
    /\ ThreadFrame

Goto(t, line) == tpc' = [tpc EXCEPT ![t] = line] /\ UNCHANGED <<targ, terr>>

Raise(t, exc) ==
    /\ tpc' = [tpc EXCEPT ![t] = "failed"]
    /\ terr' = [terr EXCEPT ![t] = exc]
    /\ UNCHANGED <<targ, cData, cOrder>>

\* one statement of get(key), lines 43-49
GetStep ==
    /\ \E t \in ThreadIds :
          LET k == targ[t].key
          IN  \/ /\ tpc[t] = "get43"
                 /\ Goto(t, IF k \notin DOMAIN cData THEN "idle" ELSE "get46")
                 /\ UNCHANGED <<cData, cOrder>>
              \/ /\ tpc[t] = "get46"
                 /\ Goto(t, IF InList(cOrder, k) THEN "get47" ELSE "get48")
                 /\ UNCHANGED <<cData, cOrder>>
              \/ /\ tpc[t] = "get47"
                 /\ IF InList(cOrder, k)
                    THEN cOrder' = ListRemove(cOrder, k) /\ Goto(t, "get48") /\ UNCHANGED cData
                    ELSE Raise(t, "ValueError")
              \/ /\ tpc[t] = "get48"
                 /\ cOrder' = Append(cOrder, k)
                 /\ Goto(t, "get49")
                 /\ UNCHANGED cData
              \/ /\ tpc[t] = "get49"
                 /\ IF k \in DOMAIN cData
                    THEN Goto(t, "idle") /\ UNCHANGED <<cData, cOrder>>
                    ELSE Raise(t, "KeyError")
    /\ ThreadFrame

\* one statement of set(key, value), lines 53-59
SetStep ==
    /\ \E t \in ThreadIds :
          LET k == targ[t].key
          IN  \/ /\ tpc[t] = "set53"
                 /\ Goto(t, IF k \in DOMAIN cData THEN "set54"
                            ELSE IF Cardinality(DOMAIN cData) >= cMax /\ cOrder # <<>>
                                 THEN "set56" ELSE "set58")
                 /\ UNCHANGED <<cData, cOrder>>
              \/ /\ tpc[t] = "set54"
                 /\ IF InList(cOrder, k)
                    THEN cOrder' = ListRemove(cOrder, k) /\ Goto(t, "set58") /\ UNCHANGED cData
                    ELSE Raise(t, "ValueError")
              \/ /\ tpc[t] = "set56"
                 /\ IF cOrder # <<>>
                    THEN /\ cOrder' = Tail(cOrder)
                         /\ targ' = [targ EXCEPT ![t].oldest = Head(cOrder)]
                         /\ tpc' = [tpc EXCEPT ![t] = "set57"]
                         /\ UNCHANGED <<terr, cData>>
                    ELSE Raise(t, "IndexError")
              \/ /\ tpc[t] = "set57"
                 /\ IF targ[t].oldest \in DOMAIN cData
                    THEN cData' = DictDel(cData, targ[t].oldest) /\ Goto(t, "set58")
                         /\ UNCHANGED cOrder
                    ELSE Raise(t, "KeyError")
              \/ /\ tpc[t] = "set58"
                 /\ cData' = DictPut(cData, k, targ[t].value)
                 /\ Goto(t, "set59")
                 /\ UNCHANGED cOrder
              \/ /\ tpc[t] = "set59"
                 /\ cOrder' = Append(cOrder, k)
                 /\ Goto(t, "idle")
                 /\ UNCHANGED cData
    /\ ThreadFrame

NextThreads ==
    \/ ThreadCall
    \/ GetStep
    \/ SetStep

SpecThreads == InitThreadSpec /\ [][NextThreads]_vars

NoDuplicates(list) == \A i, j \in 1..Len(list) : list[i] = list[j] => i = j

\* C3: under every interleaving of concurrent get and set calls no call fails with an
\* exception, and whenever no call is in progress the order list holds exactly the keys
\* of the data map, each once.
C3_ConcurrentCallsSynchronized ==
    /\ \A t \in DOMAIN terr : terr[t] = "none"
    /\ (\A t \in DOMAIN tpc : tpc[t] = "idle") =>
          (NoDuplicates(cOrder) /\ SeqRange(cOrder) = DOMAIN cData)

\* ------------------------------------------------------------------------
\* POST /recommend (specification SpecApi)
\* ------------------------------------------------------------------------
\* create_app: RecommendationCache(max_size=100)
ApiCacheSize == 100

\* the analytics log grows without limit; the requests stop at this many events
MaxEvents == 2

\* the largest top_locations / top_cuisines of a GET /analytics/popular
MaxTopCount == 2

\* a wrong handler: relaxation is allowed
ApiRelaxIfEmpty_Allowed == TRUE

\* recommend_endpoint: recommend(store, prefs, top_n=body.top_n, relax_if_empty=False)
ApiRelaxIfEmpty == FALSE

ApiBody(raw, n) ==
    [location |-> raw.location, min_rating |-> raw.min_rating, min_cost |-> raw.min_cost,
     max_cost |-> raw.max_cost, cuisines |-> raw.cuisines, rest_type |-> raw.rest_type,
     online_order |-> raw.online_order, book_table |-> raw.book_table, top_n |-> n]

\* body.model_dump(): every field of RecommendRequest, in declaration order
ModelDump(b) ==
    << <<"location", b.location>>, <<"min_rating", b.min_rating>>, <<"min_cost", b.min_cost>>,
       <<"max_cost", b.max_cost>>, <<"cuisines", b.cuisines>>, <<"rest_type", b.rest_type>>,
       <<"online_order", b.online_order>>, <<"book_table", b.book_table>>,
       <<"top_n", Some(b.top_n)>> >>

\* the keyword arguments RecommendPreferences is built from (lines 123-132)
BodyPrefs(b) ==
    [location |-> b.location, min_rating |-> b.min_rating, min_cost |-> b.min_cost,
     max_cost |-> b.max_cost, cuisines |-> b.cuisines, rest_type |-> b.rest_type,
     online_order |-> b.online_order, book_table |-> b.book_table]

ApiBodyDomain ==
    { ApiBody([EmptyRaw EXCEPT !.location = Some(<<"A", "b">>),
                               !.cuisines = Some(<< <<"c">>, <<"d">> >>)], 2),
      ApiBody([EmptyRaw EXCEPT !.location = Some(<<"A", "b">>),
                               !.cuisines = Some(<< <<"d">>, <<"c">> >>)], 2),
      ApiBody([EmptyRaw EXCEPT !.rest_type = Some(<<"b">>), !.min_cost = Some(500)], 1),
      ApiBody([EmptyRaw EXCEPT !.location = Some(<<" ", "B">>), !.min_rating = Some(40),
                               !.cuisines = Some(<< <<"c">>, <<"c">> >>)], 1) }

ApiStoreDomain == {<<>>, Catalogue, SubSeq(Catalogue, 2, 3)}

InitApiSpec ==
    /\ store \in ApiStoreDomain
    /\ InitRec
    /\ InitCache(ApiCacheSize)
    /\ InitHist
    /\ InitApi
    /\ InitThreads
    /\ InitKeys
    /\ InitQuery
    /\ InitNorm
    /\ InitPipeline
    /\ InitLog
    /\ InitAnalytics
    /\ InitConn
    /\ InitMerge

\* lines 111-122: the key is computed, the cache is read, a strict entry is served
ApiCacheHit ==
    /\ pc = "idle"
    /\ \E b \in ApiBodyDomain :
       \E k \in {CacheKeyFromRequest(ModelDump(b))} :
       \E cached \in {CacheGetResult(Cache, k)} :
              /\ IsSome(cached) /\ Val(cached).relaxed = FALSE
              /\ body' = Some(b)
              /\ key' = Some(k)
              /\ cData' = CacheAfterGet(Cache, k).data
              /\ cOrder' = CacheAfterGet(Cache, k).order
              /\ resp' = Some([restaurants |-> Val(cached).restaurants,
                               summary |-> Val(cached).summary,
                               relaxed |-> Val(cached).relaxed])
              /\ Len(events) < MaxEvents
              /\ events' = LogRecommendUsage(events, ModelDump(b))
    /\ fromCache' = TRUE
    /\ pc' = "done"
    /\ caller' = "api"
    /\ UNCHANGED <<store, req, filtered, relaxed, summary, sumCalls, attempts, llmOk,
                   storeFailed, cMax, histVars, setCalls, connOpen, thrVars, keyVars, qryVars, normVars, pipeVars, runVars, logVars, popular, connVars, mergeVars>>

\* lines 111-153: the key is computed, the cache is read and has no strict entry, the
\* preferences are built, the store is opened and recommend is called
ApiCacheMiss ==
    /\ pc = "idle"
    /\ \E b \in ApiBodyDomain :
       \E k \in {CacheKeyFromRequest(ModelDump(b))} :
       \E cached \in {CacheGetResult(Cache, k)} :
              /\ ~(IsSome(cached) /\ Val(cached).relaxed = FALSE)
              /\ body' = Some(b)
              /\ key' = Some(k)
              /\ cData' = CacheAfterGet(Cache, k).data
              /\ cOrder' = CacheAfterGet(Cache, k).order
              /\ Len(events) < MaxEvents
              /\ events' = LogRecommendUsage(events, ModelDump(b))
              /\ EnterRecommend(BodyPrefs(b), b.top_n, ApiRelaxIfEmpty, "api")
    /\ connOpen' = TRUE
    /\ opens' = opens + 1
    /\ UNCHANGED <<store, cMax, histVars, fromCache, setCalls, thrVars, keyVars, qryVars, normVars, pipeVars, runVars, popular, mergeVars>>

\* lines 154-162: the result is cached and returned, the store is closed
ApiCacheSet ==
    /\ pc = "cacheset"
    /\ cData' = CacheAfterSet(Cache, Val(key), Val(resp)).data
    /\ cOrder' = CacheAfterSet(Cache, Val(key), Val(resp)).order
    /\ setCalls' = setCalls + 1
    /\ connOpen' = FALSE
    /\ pc' = "done"
    /\ UNCHANGED <<store, caller, req, filtered, relaxed, summary, resp, sumCalls, attempts,
                   llmOk, storeFailed, cMax, histVars, body, key, fromCache, thrVars, keyVars, qryVars, normVars, pipeVars, runVars, logVars, anaVars, connVars, mergeVars>>

\* another client of the same process calls recommend with relaxation allowed
DirectRelaxedCall ==
    /\ pc = "idle"
    /\ \E b \in ApiBodyDomain : EnterRecommend(BodyPrefs(b), b.top_n, TRUE, "direct")
    /\ UNCHANGED <<store, cacheVars, histVars, apiVars, thrVars, keyVars, qryVars, normVars, pipeVars, runVars, anaVars, connVars, mergeVars>>

\* GET /analytics/popular (lines 165-171): get_popular over the log
AnalyticsPopular ==
    /\ pc = "idle"
    /\ \E tl \in 0..MaxTopCount, tc \in 0..MaxTopCount :
          popular' = Some([top_locations |-> tl, top_cuisines |-> tc,
                           result |-> GetPopular(events, tl, tc)])
    /\ pc' = "popular"
    /\ UNCHANGED <<store, caller, req, filtered, relaxed, summary, resp, sumCalls, attempts,
                   llmOk, storeFailed, cacheVars, histVars, apiVars, thrVars, keyVars, qryVars,
                   normVars, pipeVars, runVars, logVars, events, connVars, mergeVars>>

\* analytics.clear_events()
ClearEvents ==
    /\ pc = "idle"
    /\ events # <<>>
    /\ events' = ClearedEvents
    /\ UNCHANGED <<store, recVars, cacheVars, histVars, apiVars, thrVars, keyVars, qryVars,
                   normVars, pipeVars, runVars, logVars, popular, connVars, mergeVars>>

NextApi ==
    \/ ApiCacheHit
    \/ ApiCacheMiss
    \/ DirectRelaxedCall
    \/ AnalyticsPopular
    \/ ClearEvents
    \/ Filter
    \/ FilterStoreError
    \/ SkipSummary
    \/ GetLlmSummary
    \/ CompletionReturns
    \/ CompletionRaises
    \/ Return
    \/ ApiCacheSet
    \/ Finish

SpecApi == InitApiSpec /\ [][NextApi]_vars

\* C2: the handler writes an entry to the cache only when its relaxed field is false,
\* and a response served from the cache has relaxed = false.
C2_OnlyStrictEntriesCachedOrServed ==
    /\ \A k \in DOMAIN cData : cData[k].relaxed = FALSE
    /\ fromCache => Val(resp).relaxed = FALSE
    /\ (caller = "api" /\ IsSome(resp)) => Val(resp).relaxed = FALSE

C2_Witness ==
    /\ fromCache
    /\ pc = "done"
    /\ Val(resp).restaurants = <<>>
    /\ Cardinality(DOMAIN cData) >= 2

\* C9: when a store operation fails during recommend, the error reaches the caller:
\* there is no response, the summarizer was not invoked, and the handler has written
\* nothing to the cache for the request.
C9_StoreErrorPropagates ==
    storeFailed # 0 =>
        /\ pc = "error"
        /\ resp = None
        /\ sumCalls = <<>>
        /\ attempts = 0
        /\ setCalls = 0
        /\ caller = "api" => Val(key) \notin DOMAIN cData

C9_Witness ==
    /\ pc = "error"
    /\ caller = "api"
    /\ storeFailed = 1
    /\ cData # <<>>

\* a store error in a relaxation stage of a direct call
C9_WitnessRelaxationStage ==
    /\ pc = "error"
    /\ caller = "direct"
    /\ storeFailed = 4

\* ------------------------------------------------------------------------
\* cache_key_from_request on pairs of request bodies (specification SpecKey)
\* ------------------------------------------------------------------------
KeyNameDomain == {"location", "cuisines", "top_n"}

KeyValueDomain(name) ==
    CASE name = "location" -> {None, Some(<<"a">>), Some(<<"b">>)}
      [] name = "cuisines" -> {None, Some(<< <<"c">>, <<"d">> >>), Some(<< <<"d">>, <<"c">> >>),
                               Some(<< <<"c">> >>)}
      [] name = "top_n" -> {None, Some(5)}

\* every dict over a subset of the names, in every insertion order
RECURSIVE BodiesOver(_)
BodiesOver(names) ==
    {<<>>} \cup UNION { { << <<n, v>> >> \o rest : v \in KeyValueDomain(n),
                                                    rest \in BodiesOver(names \ {n}) }
                        : n \in names }

KeyBodyDomain == BodiesOver(KeyNameDomain)

InitKeySpec ==
    /\ store = <<>>
    /\ InitRec
    /\ InitCache(1)
    /\ InitHist
    /\ InitApi
    /\ InitThreads
    /\ b1 \in KeyBodyDomain
    /\ b2 \in KeyBodyDomain
    /\ k1 = None
    /\ k2 = None
    /\ kpc = "start"
    /\ InitQuery
    /\ InitNorm
    /\ InitPipeline
    /\ InitLog
    /\ InitAnalytics
    /\ InitConn
    /\ InitMerge

ComputeKeys ==
    /\ kpc = "start"
    /\ k1' = Some(CacheKeyFromRequest(b1))
    /\ k2' = Some(CacheKeyFromRequest(b2))
    /\ kpc' = "done"
    /\ UNCHANGED <<store, recVars, cacheVars, histVars, apiVars, thrVars, b1, b2,
                   qryVars, normVars, pipeVars, runVars, logVars, anaVars, connVars, mergeVars>>

NextKey == ComputeKeys

SpecKey == InitKeySpec /\ [][NextKey]_vars

\* the non-null value a body gives a parameter, None when it is null or absent
Effective(b, name) ==
    IF \E i \in 1..Len(b) : b[i][1] = name /\ IsSome(b[i][2])
    THEN (CHOOSE p \in SeqRange(b) : p[1] = name)[2]
    ELSE None

Occurrences(list, x) == Cardinality({i \in 1..Len(list) : list[i] = x})

SameBag(s, t) ==
    /\ Len(s) = Len(t)
    /\ \A x \in SeqRange(s) \cup SeqRange(t) : Occurrences(s, x) = Occurrences(t, x)

\* two bodies make the same request: every parameter has the same non-null value in
\* both, the cuisines up to their order
SameRequest(x, y) ==
    \A name \in SeqRange(FieldNames) :
        LET vx == Effective(x, name)
            vy == Effective(y, name)
        IN  /\ IsSome(vx) = IsSome(vy)
            /\ IsSome(vx) => IF name = "cuisines" THEN SameBag(Val(vx), Val(vy))
                             ELSE Val(vx) = Val(vy)

\* C10: two request bodies yield the same key exactly when they differ only in the
\* order of the cuisines, the order of their keys, or null versus absent parameters.
C10_KeyIsCanonical ==
    kpc = "done" => ((k1 = k2) <=> SameRequest(b1, b2))

C10_Witness ==
    /\ kpc = "done"
    /\ k1 = k2
    /\ Len(b1) > Len(b2)
    /\ IsSome(Effective(b1, "cuisines"))
    /\ Effective(b1, "cuisines") # Effective(b2, "cuisines")
    /\ Len(b2) >= 2 /\ b1[1][1] # b2[1][1]

\* ------------------------------------------------------------------------
\* RestaurantStore.query called directly (specification SpecQuery)
\* ------------------------------------------------------------------------
MaxLimit == 3

QueryLimitDomain == 1..MaxLimit

QueryKwargsDomain ==
    [limit : QueryLimitDomain,
     location : {None, Some(<<"A", "b">>), Some(<<" ", "B">>)},
     min_rate : {None, Some(40)},
     min_cost : {None, Some(500)},
     max_cost : {None, Some(500)},
     cuisine_contains : {None, Some(<<"c">>), Some(<<" ", "D">>), Some(<<"c", "_", "d">>)},
     rest_type : {None, Some(<<"b">>)},
     online_order : {None, Some(TRUE)},
     book_table : {None, Some(FALSE)}]

InitQuerySpec ==
    /\ store \in StoreDomain
    /\ InitRec
    /\ InitCache(1)
    /\ InitHist
    /\ InitApi
    /\ InitThreads
    /\ InitKeys
    /\ qkw \in QueryKwargsDomain
    /\ qres = <<>>
    /\ qpc = "start"
    /\ InitNorm
    /\ InitPipeline
    /\ InitLog
    /\ InitAnalytics
    /\ InitConn
    /\ InitMerge

\* store.query(**qkw)
RunQuery ==
    /\ qpc = "start"
    /\ qres' = StoreQuery(store, qkw)
    /\ qpc' = "done"
    /\ UNCHANGED <<store, recVars, cacheVars, histVars, apiVars, thrVars, keyVars, qkw,
                   normVars, pipeVars, runVars, logVars, anaVars, connVars, mergeVars>>

NextQuery == RunQuery

SpecQuery == InitQuerySpec /\ [][NextQuery]_vars

\* query(**kw) returns row r when r is the only row of the table
QueryAccepts(r, kw) == StoreQuery(<<r>>, [kw EXCEPT !.limit = 1]) # <<>>

\* C11: the min_rate, max_cost and min_cost bounds of query are null-inclusive: a
\* returned record has a null value or a value within the bound, and a record with a
\* null rate or cost that the other filters accept is not excluded by the bound.
C11_QueryBoundsNullInclusive ==
    qpc = "done" =>
        /\ \A i \in 1..Len(qres) :
              /\ IsSome(qkw.min_rate) =>
                    (qres[i].rate = None \/ Val(qres[i].rate) >= Val(qkw.min_rate))
              /\ IsSome(qkw.max_cost) =>
                    (qres[i].cost_for_two = None
                        \/ Val(qres[i].cost_for_two) <= Val(qkw.max_cost))
              /\ IsSome(qkw.min_cost) =>
                    (qres[i].cost_for_two = None
                        \/ Val(qres[i].cost_for_two) >= Val(qkw.min_cost))
        /\ \A r \in SeqRange(store) :
              /\ (r.rate = None /\ QueryAccepts(r, [qkw EXCEPT !.min_rate = None]))
                    => QueryAccepts(r, qkw)
              /\ (r.cost_for_two = None
                    /\ QueryAccepts(r, [qkw EXCEPT !.min_cost = None, !.max_cost = None]))
                    => QueryAccepts(r, qkw)

C11_Witness ==
    /\ qpc = "done"
    /\ IsSome(qkw.min_rate) /\ IsSome(qkw.max_cost)
    /\ \E i \in 1..Len(qres) : qres[i].rate = None /\ qres[i].cost_for_two = None
    /\ \E i \in 1..Len(qres) : qres[i].rate # None /\ qres[i].cost_for_two # None
    /\ \E r \in SeqRange(store) : ~QueryAccepts(r, qkw)

\* a is ranked no later than b: non-null rate first, then rate descending, then
\* non-null votes first, then votes descending
RankedNoLater(a, b) ==
    \/ (a.rate # None /\ b.rate = None)
    \/ (a.rate # None /\ b.rate # None /\ Val(a.rate) > Val(b.rate))
    \/ /\ a.rate = b.rate
       /\ \/ b.votes = None
          \/ (a.votes # None /\ Val(a.votes) >= Val(b.votes))

\* C12: query returns the matching records ranked (non-null rate first, rate
\* descending, votes descending with null votes last), and the limit is applied after
\* filtering and ranking: the result is the first `limit` records of the ranking.
C12_QueryRankedThenLimited ==
    qpc = "done" =>
        LET matches == {r \in SeqRange(store) : QueryAccepts(r, qkw)}
        IN  /\ SeqRange(qres) \subseteq matches
            /\ \A i, j \in 1..Len(qres) : i < j =>
                  (qres[i] # qres[j] /\ RankedNoLater(qres[i], qres[j]))
            /\ Len(qres) = IF Cardinality(matches) < qkw.limit
                           THEN Cardinality(matches) ELSE qkw.limit
            /\ \A m \in matches \ SeqRange(qres) :
                  \A i \in 1..Len(qres) : RankedNoLater(qres[i], m)

C12_Witness ==
    /\ qpc = "done"
    /\ Len(qres) = qkw.limit
    /\ Len(qres) >= 2
    /\ qres[1].rate = qres[2].rate
    /\ qres[1].votes # None /\ qres[2].votes = None
    /\ \E i, j \in 1..Len(qres) : i < j /\ qres[i].id > qres[j].id
    /\ \E r \in SeqRange(store) : QueryAccepts(r, qkw) /\ r \notin SeqRange(qres) /\ r.rate = None

\* text lowercased with all whitespace removed
NormalizedText(s) == Lower(RemoveChars(s, Whitespace))

LocationOnlyKwargs(kw) ==
    [limit |-> 1, location |-> kw.location, min_rate |-> None, min_cost |-> None,
     max_cost |-> None, cuisine_contains |-> None, rest_type |-> None,
     online_order |-> None, book_table |-> None]

\* C13: the location filter of query and that of the strict post-filter accept a
\* record exactly when its location, lowercased with all whitespace removed, equals the
\* requested location lowercased with all whitespace removed, and the two agree.
C13_LocationFiltersAgree ==
    (qpc = "done" /\ IsSome(qkw.location)) =>
        LET want == NormalizedText(Val(qkw.location))
            prefs == RecommendPreferences([EmptyRaw EXCEPT !.location = qkw.location])
        IN  /\ \A i \in 1..Len(qres) : NormalizedText(Coalesce(qres[i].location)) = want
            /\ \A r \in SeqRange(store) :
                  /\ QueryAccepts(r, LocationOnlyKwargs(qkw))
                        <=> NormalizedText(Coalesce(r.location)) = want
                  /\ RestaurantMatchesPreferences(r, prefs)
                        <=> NormalizedText(Coalesce(r.location)) = want

\* C14: with a cuisine filter set, query and the strict post-filter accept no record
\* whose cuisines are null or empty, and accept a record only when the requested
\* cuisine, lowercased with whitespace removed, is a substring of the record's
\* cuisines lowercased with spaces removed.
C14_CuisineFilterIsSubstringMatch ==
    (qpc = "done" /\ IsSome(qkw.cuisine_contains)) =>
        LET want == NormalizedText(Val(qkw.cuisine_contains))
            prefs == RecommendPreferences(
                         [EmptyRaw EXCEPT !.cuisines = Some(<<Val(qkw.cuisine_contains)>>)])
            Matches(r) ==
                /\ Coalesce(r.cuisines) # <<>>
                /\ Contains(RemoveChars(Lower(Coalesce(r.cuisines)), {" "}), want)
        IN  /\ \A i \in 1..Len(qres) : Matches(qres[i])
            /\ \A r \in SeqRange(store) : RestaurantMatchesPreferences(r, prefs) => Matches(r)

\* C14 for plain cuisine names (no LIKE wildcard in the requested cuisine)
C14_HoldsWithoutWildcards ==
    (\A i \in 1..Len(Coalesce(qkw.cuisine_contains)) :
         Val(qkw.cuisine_contains)[i] \notin {"_", "%"})
        => C14_CuisineFilterIsSubstringMatch

\* ------------------------------------------------------------------------
\* phase1_data_pipeline.normalizer: parsing helpers
\* ------------------------------------------------------------------------
\* A raw dataset value is None (None or a NaN float) or Some(text), text being
\* str(value).
Digits == {"0", "1", "2", "3", "4", "5", "6", "7", "8", "9"}

DigitVal(c) ==
    CASE c = "0" -> 0 [] c = "1" -> 1 [] c = "2" -> 2 [] c = "3" -> 3 [] c = "4" -> 4
      [] c = "5" -> 5 [] c = "6" -> 6 [] c = "7" -> 7 [] c = "8" -> 8 [] c = "9" -> 9

\* str.isdigit()
IsDigitStr(s) == s # <<>> /\ \A i \in 1..Len(s) : s[i] \in Digits

\* int(s) for a digit string
RECURSIVE IntOfDigits(_)
IntOfDigits(s) ==
    IF s = <<>> THEN 0
    ELSE IntOfDigits(SubSeq(s, 1, Len(s) - 1)) * 10 + DigitVal(s[Len(s)])

\* s.split(sep)
RECURSIVE SplitOn(_, _)
SplitOn(s, sep) ==
    IF \A i \in 1..Len(s) : s[i] # sep THEN <<s>>
    ELSE LET i == CHOOSE k \in 1..Len(s) : s[k] = sep /\ \A j \in 1..(k - 1) : s[j] # sep
         IN  <<SubSeq(s, 1, i - 1)>> \o SplitOn(SubSeq(s, i + 1, Len(s)), sep)

\* the longest prefix of s made of digits
RECURSIVE DigitPrefix(_)
DigitPrefix(s) ==
    IF s = <<>> \/ Head(s) \notin Digits THEN <<>>
    ELSE <<Head(s)>> \o DigitPrefix(Tail(s))

\* re.search(r"(\d+)", s).group(1): the first run of digits, <<>> when there is none
RECURSIVE FirstDigitRun(_)
FirstDigitRun(s) ==
    IF s = <<>> THEN <<>>
    ELSE IF Head(s) \in Digits THEN DigitPrefix(s) ELSE FirstDigitRun(Tail(s))

\* s.lower() in ("nan", "null", "")
IsNullWord(s) == Lower(s) \in {<<"n", "a", "n">>, <<"n", "u", "l", "l">>, <<>>}

\* re.match(r"^\d{1,4}\.\d{3}$", s)
MatchesPeriodThousands(s) ==
    /\ Len(s) \in 5..8
    /\ s[Len(s) - 3] = "."
    /\ IsDigitStr(SubSeq(s, 1, Len(s) - 4))
    /\ IsDigitStr(SubSeq(s, Len(s) - 2, Len(s)))

\* a wrong _parse_cost: a comma pair is always read as a range
ParseCost_PairIsRange(value) ==
    IF ~IsSome(value) THEN None
    ELSE LET s == PyStrip(Val(value))
             raw == SplitOn(s, ",")
             parts == [i \in 1..Len(raw) |-> PyStrip(raw[i])]
         IN  IF s = <<>> \/ IsNullWord(s) THEN None
             ELSE IF MatchesPeriodThousands(s)
                  THEN Some(IntOfDigits(RemoveChars(s, {"."})))
             ELSE IF Len(parts) = 2 /\ IsDigitStr(parts[1]) /\ IsDigitStr(parts[2])
                  THEN Some(IntOfDigits(parts[1]))
             ELSE IF Len(parts) = 1 /\ IsDigitStr(parts[1]) THEN Some(IntOfDigits(parts[1]))
             ELSE IF FirstDigitRun(s) # <<>> THEN Some(IntOfDigits(FirstDigitRun(s)))
             ELSE None

\* _parse_cost(value)
ParseCost(value) ==
    IF ~IsSome(value) THEN None
    ELSE LET s == PyStrip(Val(value))
             raw == SplitOn(s, ",")
             parts == [i \in 1..Len(raw) |-> PyStrip(raw[i])]
         IN  IF s = <<>> \/ IsNullWord(s) THEN None
             ELSE IF MatchesPeriodThousands(s)
                  THEN Some(IntOfDigits(RemoveChars(s, {"."})))
             ELSE IF Len(parts) = 2 /\ IsDigitStr(parts[1]) /\ IsDigitStr(parts[2])
                  THEN IF Len(parts[2]) = 3 /\ Len(parts[1]) <= 2
                       THEN Some(IntOfDigits(parts[1] \o parts[2]))
                       ELSE IF Len(parts[2]) = 2
                            THEN Some(IntOfDigits(parts[1]) * 100 + IntOfDigits(parts[2]))
                            ELSE Some(IntOfDigits(parts[1]))
             ELSE IF Len(parts) = 1 /\ IsDigitStr(parts[1]) THEN Some(IntOfDigits(parts[1]))
             ELSE IF FirstDigitRun(s) # <<>> THEN Some(IntOfDigits(FirstDigitRun(s)))
             ELSE None

\* ------------------------------------------------------------------------
\* _parse_cost on single strings (specification SpecCost)
\* ------------------------------------------------------------------------
CostAlphabet == {"0", "1", "2", ",", ".", " ", "x"}

MaxCostLen == 5

\* longer strings of the dataset's formats
LongCostStrings ==
    { <<"1", ",", "0", "0", ",", "0", "0", "0">>,
      <<"1", ",", "0", "0", "0", "0">>,
      <<"1", "2", ".", "5", "0", "0">>,
      <<"2", "0", "1", "0", ".", "1", "2", "0">>,
      <<"1", "2", "0", "1", "2", ".", "0", "0", "0">>,
      <<"1", "0", "0", ",", "2", "0", "0">>,
      <<"1", "0", "0", "0", ",", "5", "0">>,
      <<" ", "1", " ", ",", " ", "2", "0", "0", " ">>,
      <<"n", "a", "n">>,
      <<"N", "u", "l", "l">> }

CostStringDomain ==
    UNION {[1..k -> CostAlphabet] : k \in 0..MaxCostLen} \cup LongCostStrings

InitCostSpec ==
    /\ store = <<>>
    /\ InitRec
    /\ InitCache(1)
    /\ InitHist
    /\ InitApi
    /\ InitThreads
    /\ InitKeys
    /\ InitQuery
    /\ cin \in CostStringDomain
    /\ cout = None
    /\ cpc = "start"
    /\ rrow = <<>>
    /\ rout = None
    /\ rpc = "start"
    /\ InitPipeline
    /\ InitLog
    /\ InitAnalytics
    /\ InitConn
    /\ InitMerge

\* _parse_cost(cin)
ParseCostCall ==
    /\ cpc = "start"
    /\ cout' = ParseCost(Some(cin))
    /\ cpc' = "done"
    /\ UNCHANGED <<store, recVars, cacheVars, histVars, apiVars, thrVars, keyVars, qryVars,
                   cin, rrow, rout, rpc, pipeVars, runVars, logVars, anaVars, connVars, mergeVars>>

NextCost == ParseCostCall

SpecCost == InitCostSpec /\ [][NextCost]_vars

\* the claim's rules, read on the string with surrounding whitespace removed and the
\* two sides of a comma trimmed
IsTrimmedDigits(s) == IsDigitStr(PyStrip(s))

CommaPairs(s) ==
    {i \in 1..Len(s) : /\ s[i] = ","
                       /\ IsTrimmedDigits(SubSeq(s, 1, i - 1))
                       /\ IsTrimmedDigits(SubSeq(s, i + 1, Len(s)))}

FirstDigitIndex(s) == CHOOSE i \in 1..Len(s) : s[i] \in Digits /\ \A j \in 1..(i - 1) : s[j] \notin Digits

EndOfRun(s, i) == CHOOSE e \in i..Len(s) :
                      /\ \A j \in i..e : s[j] \in Digits
                      /\ (e = Len(s) \/ s[e + 1] \notin Digits)

ExpectedCost(text) ==
    LET s == PyStrip(text)
    IN  IF \E n \in 1..4 : /\ Len(s) = n + 4
                           /\ s[n + 1] = "."
                           /\ \A i \in (1..Len(s)) \ {n + 1} : s[i] \in Digits
        THEN Some(IntOfDigits(SelectSeq(s, LAMBDA c : c \in Digits)))
        ELSE IF CommaPairs(s) # {}
        THEN LET i == CHOOSE k \in CommaPairs(s) : TRUE
                 a == PyStrip(SubSeq(s, 1, i - 1))
                 b == PyStrip(SubSeq(s, i + 1, Len(s)))
             IN  IF Len(b) = 3 /\ Len(a) <= 2 THEN Some(IntOfDigits(a \o b))
                 ELSE IF Len(b) = 2 THEN Some(IntOfDigits(a) * 100 + IntOfDigits(b))
                 ELSE Some(IntOfDigits(a))
        ELSE IF IsDigitStr(s) THEN Some(IntOfDigits(s))
        ELSE IF \E i \in 1..Len(s) : s[i] \in Digits
        THEN LET i == FirstDigitIndex(s)
             IN  Some(IntOfDigits(SubSeq(s, i, EndOfRun(s, i))))
        ELSE None

\* C17: _parse_cost returns the result of the first matching rule of: period
\* thousands, comma pair with a 3-digit suffix, comma pair with a 2-digit suffix, any
\* other comma pair, all-digit string, first embedded digit run, null.
C17_ParseCostPrecedence ==
    cpc = "done" => cout = ExpectedCost(cin)

C17_Witness ==
    /\ cpc = "done"
    /\ cin = <<"1", ",", "0", "0">>
    /\ cout = Some(100)

\* digits of the string, leading zeros not counted
SignificantDigits(s) ==
    Len(DropWhile(SelectSeq(s, LAMBDA c : c \in Digits), {"0"}))

\* C18: _parse_cost never returns 1 or 2 for a string with four or more significant
\* digits.
C18_NeverOneOrTwoForLargeCosts ==
    (cpc = "done" /\ SignificantDigits(cin) >= 4) => cout \notin {Some(1), Some(2)}

\* C18 for the formats the parser knows: one separator, a period or a comma followed
\* by two or three digits, or none
C18_HoldsForKnownFormats ==
    (/\ cpc = "done"
     /\ SignificantDigits(cin) >= 4
     /\ \/ IsDigitStr(PyStrip(cin))
        \/ MatchesPeriodThousands(PyStrip(cin))
        \/ \E i \in CommaPairs(PyStrip(cin)) : Len(PyStrip(cin)) - i \in {2, 3})
        => cout \notin {Some(1), Some(2)}

\* ------------------------------------------------------------------------
\* phase1_data_pipeline.normalizer: normalize_row
\* ------------------------------------------------------------------------
\* _parse_rate(value); the result is in tenths
ParseRate(value) ==
    IF ~IsSome(value) THEN None
    ELSE LET s == PyStrip(Val(value))
             whole == FirstDigitRun(s)
             from == CHOOSE i \in 1..Len(s) :
                         s[i] \in Digits /\ \A j \in 1..(i - 1) : s[j] \notin Digits
             rest == SubSeq(s, from + Len(whole), Len(s))
             frac == IF rest # <<>> /\ Head(rest) = "." THEN DigitPrefix(Tail(rest)) ELSE <<>>
             tenths == IntOfDigits(whole) * 10 + (IF frac = <<>> THEN 0 ELSE DigitVal(frac[1]))
             inRange == \/ IntOfDigits(whole) < 5
                        \/ IntOfDigits(whole) = 5 /\ \A i \in 1..Len(frac) : frac[i] = "0"
         IN  IF s = <<>> \/ IsNullWord(s) THEN None
             ELSE IF whole = <<>> THEN None
             ELSE IF inRange THEN Some(tenths) ELSE None

\* a wrong _normalize_string: a blank text is kept
NormalizeString_KeepsBlank(value, max_length) ==
    IF ~IsSome(value) THEN None ELSE Some(Take(Val(value), max_length))

\* _normalize_string(value, max_length)
NormalizeString(value, max_length) ==
    IF ~IsSome(value) THEN None
    ELSE LET s == PyStrip(Val(value))
         IN  IF s = <<>> THEN None ELSE Some(Take(s, max_length))

\* _normalize_location(value)
NormalizeLocation(value) == NormalizeString(value, 200)

\* re.sub(run of characters of `chars`, to, s)
RECURSIVE CollapseRuns(_, _, _)
CollapseRuns(s, chars, to) ==
    IF s = <<>> THEN <<>>
    ELSE IF Head(s) \in chars
         THEN <<to>> \o CollapseRuns(DropWhile(s, chars), chars, to)
         ELSE <<Head(s)>> \o CollapseRuns(Tail(s), chars, to)

\* _normalize_cuisines(value)
NormalizeCuisineText(value) ==
    IF ~IsSome(value) THEN None
    ELSE LET s == PyStrip(Val(value))
             t == PyStrip(CollapseRuns(CollapseRuns(s, {","}, ","), Whitespace, " "))
         IN  IF s = <<>> \/ t = <<>> THEN None ELSE Some(Take(t, 500))

\* _normalize_bool(value)
NormalizeBool(value) ==
    /\ IsSome(value)
    /\ Lower(PyStrip(Val(value))) \in {<<"y", "e", "s">>, <<"t", "r", "u", "e">>, <<"1">>, <<"y">>}

\* int(text): optional sign, digits, surrounding whitespace allowed; None stands for
\* the ValueError
PyIntOfText(text) ==
    LET s == PyStrip(text)
        signed == s # <<>> /\ Head(s) \in {"-", "+"}
        digits == IF signed THEN Tail(s) ELSE s
    IN  IF IsDigitStr(digits)
        THEN Some(IF signed /\ Head(s) = "-" THEN 0 - IntOfDigits(digits)
                  ELSE IntOfDigits(digits))
        ELSE None

\* _normalize_votes(value): value is None, an int, a float (here in tenths) or text
NormalizeVotes(value) ==
    IF ~IsSome(value) THEN None
    ELSE LET v == Val(value)
         IN  CASE v.kind = "int" -> Some(v.n)
               [] v.kind = "float" -> Some(IF v.n >= 0 THEN v.n \div 10 ELSE 0 - ((0 - v.n) \div 10))
               [] v.kind = "str" -> PyIntOfText(v.s)

\* x or y
OrElse(x, y) == IF IsSome(x) THEN x ELSE y

\* normalize_row(row): None, or Some(record)
NormalizeRow(row) ==
    LET name == NormalizeString(row.name, 300)
    IN  IF ~IsSome(name) THEN None
        ELSE Some([name |-> name,
                   address |-> NormalizeString(row.address, 500),
                   url |-> NormalizeString(row.url, 600),
                   location |-> OrElse(NormalizeLocation(row.location),
                                       NormalizeLocation(row.listed_in_city)),
                   listed_in_city |-> OrElse(NormalizeLocation(row.listed_in_city),
                                             NormalizeLocation(row.location)),
                   cuisines |-> NormalizeCuisineText(row.cuisines),
                   rest_type |-> NormalizeString(row.rest_type, 200),
                   rate |-> ParseRate(row.rate),
                   cost_for_two |-> ParseCost(row.cost),
                   votes |-> NormalizeVotes(row.votes),
                   online_order |-> NormalizeBool(row.online_order),
                   book_table |-> NormalizeBool(row.book_table),
                   phone |-> NormalizeString(row.phone, 50),
                   dish_liked |-> NormalizeString(row.dish_liked, 500)])

\* ------------------------------------------------------------------------
\* normalize_row on single rows (specification SpecRow)
\* ------------------------------------------------------------------------
IntVotes(n) == Some([kind |-> "int", n |-> n, s |-> <<>>])

FloatVotes(tenths) == Some([kind |-> "float", n |-> tenths, s |-> <<>>])

TextVotes(text) == Some([kind |-> "str", n |-> 0, s |-> text])

\* a raw row with the given columns, the other columns fixed
RawRow(name, address, rate, cost, votes) ==
    [name |-> name, address |-> address, url |-> None,
     location |-> Some(<<" ", "a", "\t", "b">>), listed_in_city |-> Some(<<"c">>),
     cuisines |-> Some(<<"c", ",", ",", " ", " ", "d", " ">>), rest_type |-> None,
     rate |-> rate, cost |-> cost, votes |-> votes,
     online_order |-> Some(<<"Y", "e", "s">>), book_table |-> None,
     phone |-> None, dish_liked |-> Some(<<" ">>)]

RateDomain ==
    {None, Some(<<"4", ".", "1", "/", "5">>), Some(<<"N", "E", "W">>), Some(<<"-">>),
     Some(<<"5">>), Some(<<"5", ".", "1">>), Some(<<"4", "5">>), Some(<<"-", "3", ".", "0">>),
     Some(<<" ", "3", ".", "9", " ", "/", "5">>), Some(<<"n", "a", "n">>), Some(<<"0">>),
     Some(<<"5", ".", "0">>)}

CostSampleDomain ==
    {None, Some(<<"8", "0", "0">>), Some(<<"1", ",", "2", "0", "0">>), Some(<<"1", ",", "0", "0">>),
     Some(<<"3", "0", "0", ",", "4", "0", "0">>), Some(<<"2", ".", "5", "0", "0">>),
     Some(<<"-", "5", "0">>), Some(<<"x">>), Some(<<"0">>)}

VotesDomain ==
    {None, IntVotes(0), IntVotes(12), IntVotes(0 - 5), FloatVotes(37), FloatVotes(0 - 12),
     TextVotes(<<"7">>), TextVotes(<<"-", "3">>), TextVotes(<<"x">>), TextVotes(<<" ", "4", "1">>)}

RowNameDomain == {None, Some(<<" ">>), Some(<<"a">>)}

RowDomain ==
    {RawRow(n, None, r, c, v) : n \in RowNameDomain, r \in RateDomain,
                                c \in CostSampleDomain, v \in VotesDomain}

InitRowSpec ==
    /\ store = <<>>
    /\ InitRec
    /\ InitCache(1)
    /\ InitHist
    /\ InitApi
    /\ InitThreads
    /\ InitKeys
    /\ InitQuery
    /\ cin = <<>>
    /\ cout = None
    /\ cpc = "start"
    /\ rrow \in RowDomain
    /\ rout = None
    /\ rpc = "start"
    /\ InitPipeline
    /\ InitLog
    /\ InitAnalytics
    /\ InitConn
    /\ InitMerge

\* normalize_row(rrow)
NormalizeRowCall ==
    /\ rpc = "start"
    /\ rout' = NormalizeRow(rrow)
    /\ rpc' = "done"
    /\ UNCHANGED <<store, recVars, cacheVars, histVars, apiVars, thrVars, keyVars, qryVars,
                   cin, cout, cpc, rrow, pipeVars, runVars, logVars, anaVars, connVars, mergeVars>>

NextRow == NormalizeRowCall

SpecRow == InitRowSpec /\ [][NextRow]_vars

\* C19: every record produced by normalize_row has rate null or within [0, 5],
\* cost_for_two null or a non-negative integer, votes null or a non-negative integer.
C19_NormalizedRanges ==
    (rpc = "done" /\ IsSome(rout)) =>
        LET rec == Val(rout)
        IN  /\ rec.rate = None \/ (0 <= Val(rec.rate) /\ Val(rec.rate) <= 50)
            /\ rec.cost_for_two = None \/ Val(rec.cost_for_two) >= 0
            /\ rec.votes = None \/ Val(rec.votes) >= 0

\* C19 without the votes: the ranges of rate and cost_for_two
C19_RateAndCostRanges ==
    (rpc = "done" /\ IsSome(rout)) =>
        LET rec == Val(rout)
        IN  /\ rec.rate = None \/ (0 <= Val(rec.rate) /\ Val(rec.rate) <= 50)
            /\ rec.cost_for_two = None \/ Val(rec.cost_for_two) >= 0

\* ------------------------------------------------------------------------
\* run_pipeline: load, normalize_restaurants, clear, insert_many (SpecPipeline)
\* ------------------------------------------------------------------------
MaxBatch == 3

MaxRuns == 2

\* rows the loader may return; their contents are drawn as the loop reaches them
PipeRowDomain ==
    { RawRow(Some(<<" ">>), Some(<<"x">>), Some(<<"4", ".", "1", "/", "5">>), None, None),
      RawRow(None, None, None, None, None),
      RawRow(Some(<<"a">>), None, None, None, None),
      RawRow(Some(<<"a", " ">>), Some(<<" ">>), Some(<<"4", ".", "1", "/", "5">>), None, None),
      RawRow(Some(<<"a">>), Some(<<"x">>), None, None, None) }

\* a wrong key: the rate is part of it
DedupeKey_WithRate(rec) == <<Coalesce(rec.name), Coalesce(rec.address), rec.rate>>

\* tuple(out.get(k) or "" for k in ("name", "address"))
DedupeKey(rec) == <<Coalesce(rec.name), Coalesce(rec.address)>>

\* the row insert_many writes for a normalized record
StoredRow(rec) ==
    [rec EXCEPT !.online_order = IF @ THEN 1 ELSE 0, !.book_table = IF @ THEN 1 ELSE 0]

InitPipelineSpec ==
    /\ store = <<>>
    /\ InitRec
    /\ InitCache(1)
    /\ InitHist
    /\ InitApi
    /\ InitThreads
    /\ InitKeys
    /\ InitQuery
    /\ InitNorm
    /\ InitPipeline
    /\ InitLog
    /\ InitAnalytics
    /\ InitConn
    /\ InitMerge

\* run_pipeline lines 45-63: the dataset is loaded; with no rows the run ends with a
\* summary of zeros, before the store is opened
StartRun ==
    /\ ppc = "idle"
    /\ runs < MaxRuns
    /\ runs' = runs + 1
    /\ \E n \in 0..MaxBatch, clear \in BOOLEAN :
          /\ praw' = n
          /\ pclear' = clear
          /\ ppc' = IF n = 0 THEN "idle" ELSE "normalize"
          /\ presult' = IF n = 0
                         THEN Some([loaded_rows |-> 0, normalized_count |-> 0,
                                    inserted_count |-> 0])
                         ELSE None
    /\ pnorm' = <<>>
    /\ pseen' = {}
    /\ phist' = <<>>
    /\ tbefore' = table
    /\ UNCHANGED <<store, recVars, cacheVars, histVars, apiVars, thrVars, keyVars, qryVars,
                   normVars, table, logVars, anaVars, connVars, mergeVars>>

\* normalize_restaurants, one iteration of the loop over the rows
NormalizeNext ==
    /\ ppc = "normalize"
    /\ praw > 0
    /\ \E row \in PipeRowDomain :
          LET out == NormalizeRow(row)
              fresh == IsSome(out) /\ DedupeKey(Val(out)) \notin pseen
          IN  /\ phist' = Append(phist, [row |-> row, out |-> out])
              /\ pseen' = IF fresh THEN pseen \cup {DedupeKey(Val(out))} ELSE pseen
              /\ pnorm' = IF fresh THEN Append(pnorm, Val(out)) ELSE pnorm
    /\ praw' = praw - 1
    /\ ppc' = IF praw > 1 THEN "normalize" ELSE IF pclear THEN "clear" ELSE "insert"
    /\ UNCHANGED <<store, recVars, cacheVars, histVars, apiVars, thrVars, keyVars, qryVars,
                   normVars, table, pclear, runs, runVars, logVars, anaVars, connVars,
                   mergeVars>>

\* store.clear()
ClearStore ==
    /\ ppc = "clear"
    /\ table' = <<>>
    /\ ppc' = "insert"
    /\ UNCHANGED <<store, recVars, cacheVars, histVars, apiVars, thrVars, keyVars, qryVars,
                   normVars, praw, pnorm, pseen, pclear, phist, runs, runVars, logVars,
                   anaVars, connVars, mergeVars>>

\* store.insert_many(normalized), store.close() and the summary dict (lines 72-83)
InsertMany ==
    /\ ppc = "insert"
    /\ table' = table \o [i \in 1..Len(pnorm) |-> StoredRow(pnorm[i])]
    /\ presult' = Some([loaded_rows |-> Len(phist), normalized_count |-> Len(pnorm),
                         inserted_count |-> Len(pnorm)])
    /\ ppc' = "idle"
    /\ UNCHANGED <<store, recVars, cacheVars, histVars, apiVars, thrVars, keyVars, qryVars,
                   normVars, praw, pnorm, pseen, pclear, phist, runs, tbefore, logVars,
                   anaVars, connVars, mergeVars>>

NextPipeline ==
    \/ StartRun
    \/ NormalizeNext
    \/ ClearStore
    \/ InsertMany

SpecPipeline == InitPipelineSpec /\ [][NextPipeline]_vars

\* a raw or stored name is missing, null or blank
BlankName(name) == name = None \/ PyStrip(Val(name)) = <<>>

\* C15: normalize_row returns None for every row whose name is missing, null or blank,
\* whatever its other fields, and no record with a null or blank name is ever in the
\* list to insert or in the store.
C15_NoBlankNameInStore ==
    /\ \A i \in 1..Len(phist) : BlankName(phist[i].row.name) => phist[i].out = None
    /\ \A i \in 1..Len(pnorm) : ~BlankName(pnorm[i].name)
    /\ \A i \in 1..Len(table) : ~BlankName(table[i].name)

C15_Witness ==
    /\ ppc = "idle"
    /\ runs = MaxRuns
    /\ Len(table) >= 3
    /\ \E i \in 1..Len(phist) :
          /\ phist[i].row.name = Some(<<" ">>)
          /\ phist[i].row.rate # None
          /\ phist[i].out = None
    /\ \E i \in 1..Len(phist) : phist[i].row.name = None

\* the (name, address) pair of a record, a missing component being the empty string
NameAddress(rec) ==
    <<IF rec.name = None THEN <<>> ELSE Val(rec.name),
      IF rec.address = None THEN <<>> ELSE Val(rec.address)>>

\* the valid records of the current run, in input order
ValidRecords ==
    LET valid == SelectSeq(phist, LAMBDA h : h.out # None)
    IN  [i \in 1..Len(valid) |-> Val(valid[i].out)]

\* C16: normalize_restaurants never keeps two records with the same (name, address)
\* pair; of the records sharing a pair the first valid one is kept, and the kept
\* records are in input order.
C16_DedupeKeepsFirstInOrder ==
    LET valid == ValidRecords
        firsts == {i \in 1..Len(valid) :
                      \A j \in 1..(i - 1) : NameAddress(valid[j]) # NameAddress(valid[i])}
    IN  /\ \A i, j \in 1..Len(pnorm) :
              i # j => NameAddress(pnorm[i]) # NameAddress(pnorm[j])
        /\ Len(pnorm) = Cardinality(firsts)
        /\ \E f \in [1..Len(pnorm) -> firsts] :
              /\ \A i, j \in 1..Len(pnorm) : i < j => f[i] < f[j]
              /\ \A i \in 1..Len(pnorm) : pnorm[i] = valid[f[i]]

C16_Witness ==
    /\ ppc = "insert"
    /\ Len(phist) = 3
    /\ Len(pnorm) = 2
    /\ Len(ValidRecords) = 3
    /\ NameAddress(ValidRecords[1]) = NameAddress(ValidRecords[3])
    /\ ValidRecords[1] # ValidRecords[3]
    /\ pnorm[2] = ValidRecords[2]


\* ------------------------------------------------------------------------
\* Store contents across pipeline runs (specification SpecPipeline)
\* ------------------------------------------------------------------------
\* the rows insert_many writes for the records normalized in the current run
NormalizedRows == [i \in 1..Len(pnorm) |-> StoredRow(pnorm[i])]

IsPrefix(s, t) == Len(s) <= Len(t) /\ SubSeq(t, 1, Len(s)) = s

\* a run has ended and its summary is at hand
RunEnded == ppc = "idle" /\ IsSome(presult)

RunCountsAgree ==
    /\ Val(presult).inserted_count = Val(presult).normalized_count
    /\ Val(presult).normalized_count = Len(pnorm)

\* every step leaves the table alone, empties it, or appends rows to it
TableOnlyClearedOrAppended ==
    [][table' = <<>> \/ IsPrefix(table, table')]_vars

\* C27: after a run with clear_before = true the store holds exactly the records
\* normalized in that run and inserted_count = normalized_count = store count; after a
\* run with clear_before = false the store has grown by the run's normalized count and
\* keeps its earlier records; no step updates or deletes a single record.
C27_StoreAfterRun ==
    /\ [](RunEnded =>
            /\ RunCountsAgree
            /\ pclear => (table = NormalizedRows /\ Len(table) = Val(presult).inserted_count)
            /\ ~pclear => (/\ Len(table) = Len(tbefore) + Val(presult).normalized_count
                           /\ table = tbefore \o NormalizedRows))
    /\ TableOnlyClearedOrAppended

\* C27 for the runs whose load returned at least one row
C27_HoldsWhenRowsLoaded ==
    /\ []((RunEnded /\ Val(presult).loaded_rows > 0) =>
            /\ RunCountsAgree
            /\ pclear => (table = NormalizedRows /\ Len(table) = Val(presult).inserted_count)
            /\ ~pclear => (/\ Len(table) = Len(tbefore) + Val(presult).normalized_count
                           /\ table = tbefore \o NormalizedRows))
    /\ TableOnlyClearedOrAppended

\* a run with clear_before = true whose load returned no row ended on a store that
\* still holds the records of the run before
C27_EmptyLoadLeavesStore ==
    /\ RunEnded
    /\ pclear
    /\ Val(presult).loaded_rows = 0
    /\ table # <<>>
\* ------------------------------------------------------------------------
\* Result size of recommend and get_recommendations (specification Spec)
\* ------------------------------------------------------------------------
\* C20: on every path through recommend and get_recommendations (single query,
\* multi-cuisine merge, strict post-filter, each relaxation stage) the returned list
\* has at most top_n records.
C20_AtMostTopN ==
    /\ Filtered => Len(filtered) <= req.top_n
    /\ (IsSome(resp) /\ ~fromCache) => Len(Val(resp).restaurants) <= req.top_n
    /\ pc = "summary" =>
          /\ Len(GetRecommendations(store, req.prefs, req.top_n)) <= req.top_n
          /\ Len(StrictStep(store, req.prefs, req.top_n)) <= req.top_n
          /\ Len(GetRecommendations(store, PrefsNoCuisine(req.prefs), req.top_n)) <= req.top_n
          /\ Len(GetRecommendations(store, PrefsNoRating(req.prefs), req.top_n)) <= req.top_n
          /\ Len(GetRecommendations(store, PrefsNoCost(req.prefs), req.top_n)) <= req.top_n

C20_Witness ==
    /\ pc = "done"
    /\ req.top_n = 1
    /\ IsSome(req.prefs.cuisines)
    /\ Val(resp).relaxed
    /\ Len(Val(resp).restaurants) = 1
    /\ Len(FilterCascade(store, req.prefs, 2, req.relax).restaurants) = 2


\* ------------------------------------------------------------------------
\* RecommendationCache bookkeeping (specification SpecCache)
\* ------------------------------------------------------------------------
\* the list without the entries equal to k
Without(list, k) == SelectSeq(list, LAMBDA x : x # k)

\* the latest step was a cache call of the given kind
JustCalled(op) == lastCall'.op = op /\ clock' = clock + 1

\* a get of an absent key changes nothing
GetOfAbsentKeyChangesNothing ==
    (JustCalled("get") /\ lastCall'.key \notin DOMAIN cData)
        => (cData' = cData /\ cOrder' = cOrder)

\* a set of a present key replaces its value, makes it most recent, evicts nothing
SetOfPresentKeyReplaces ==
    (JustCalled("set") /\ lastCall'.key \in DOMAIN cData)
        => /\ DOMAIN cData' = DOMAIN cData
           /\ cData'[lastCall'.key] = lastCall'.value
           /\ \A o \in (DOMAIN cData) \ {lastCall'.key} : cData'[o] = cData[o]
           /\ cOrder'[Len(cOrder')] = lastCall'.key
           /\ Without(cOrder', lastCall'.key) = Without(cOrder, lastCall'.key)

\* C28: after any sequence of get, set and clear calls by one caller the recency list
\* holds exactly the keys of the data map, each once, and there are never more than
\* max(1, max_size) entries; a get of an absent key changes nothing; a set of a key
\* already present replaces its value and makes it most recent without evicting.
C28_OrderMatchesDataWithinCapacity ==
    /\ [](/\ NoDuplicates(cOrder)
          /\ SeqRange(cOrder) = DOMAIN cData
          /\ cMax >= 1
          /\ Cardinality(DOMAIN cData) <= cMax)
    /\ [][GetOfAbsentKeyChangesNothing /\ SetOfPresentKeyReplaces]_vars

\* a full cache of two or more entries after a set of a key that was present and was
\* not the most recent one: nothing was removed
C28_Witness ==
    /\ lastCall.op = "set"
    /\ lastCall.present
    /\ lastCall.removed = {}
    /\ cMax >= 2
    /\ Cardinality(DOMAIN cData) = cMax
    /\ cData[lastCall.key] = "v2"
    /\ \E x \in DOMAIN cData : lastAccess[x] = clock - 1 /\ x # lastCall.key

\* ------------------------------------------------------------------------
\* Order of the relaxation stages (specification Spec)
\* ------------------------------------------------------------------------
\* the list the k-th call returns: a query of the store with the object it was given
CallResult(k) == GetRecommendations(store, calls[k], req.top_n)

\* the strict step's list, from the first call's result
StrictResult == Take(SelectSeq2(CallResult(1), req.prefs), req.top_n)

\* the list stage k (1 = strict step) ended with
StageResult(k) == IF k = 1 THEN StrictResult ELSE CallResult(k)

\* the preference object stage k must query with
StagePrefs(k) ==
    LET p == req.prefs
    IN  CASE k = 1 -> p
          [] k = 2 -> [location |-> p.location, min_rating |-> p.min_rating,
                       min_cost |-> p.min_cost, max_cost |-> p.max_cost, cuisines |-> None,
                       rest_type |-> p.rest_type, online_order |-> p.online_order,
                       book_table |-> p.book_table]
          [] k = 3 -> [location |-> p.location, min_rating |-> None,
                       min_cost |-> p.min_cost, max_cost |-> p.max_cost, cuisines |-> None,
                       rest_type |-> p.rest_type, online_order |-> p.online_order,
                       book_table |-> p.book_table]
          [] k = 4 -> [location |-> p.location, min_rating |-> None,
                       min_cost |-> None, max_cost |-> None, cuisines |-> None,
                       rest_type |-> p.rest_type, online_order |-> p.online_order,
                       book_table |-> p.book_table]

\* C23: the cascade runs its stages in a fixed order, each a fresh store query: without
\* cuisines, then also without min_rating, then also without both cost bounds; a
\* stage runs only if every earlier one gave nothing, the first non-empty stage's
\* result is returned, and every stage keeps location, rest_type, online_order and
\* book_table as requested.
C23_CascadeStagesInOrder ==
    Filtered =>
        /\ Len(calls) \in 1..4
        /\ \A k \in 1..Len(calls) :
              /\ calls[k] = StagePrefs(k)
              /\ calls[k].location = req.prefs.location
              /\ calls[k].rest_type = req.prefs.rest_type
              /\ calls[k].online_order = req.prefs.online_order
              /\ calls[k].book_table = req.prefs.book_table
              /\ k > 1 => req.relax
        /\ pc = "summary" =>
              /\ \A k \in 2..Len(calls) : StageResult(k - 1) = <<>>
              /\ (req.relax /\ Len(calls) < 4) => StageResult(Len(calls)) # <<>>
              /\ filtered = StageResult(Len(calls))

\* all four stages ran and the last one found records for a request that set every
\* constraint the cascade drops and two it keeps
C23_Witness ==
    /\ pc = "done"
    /\ Len(calls) = 4
    /\ filtered # <<>>
    /\ IsSome(req.prefs.cuisines) /\ IsSome(req.prefs.min_rating)
    /\ IsSome(req.prefs.min_cost) /\ IsSome(req.prefs.max_cost)
    /\ IsSome(req.prefs.location) /\ IsSome(req.prefs.online_order)
    /\ Val(resp).relaxed

\* the cascade stopped at its second stage
C23_WitnessStopsEarly ==
    /\ pc = "done"
    /\ Len(calls) = 2
    /\ filtered # <<>>
    /\ Len(store) >= 2

\* ------------------------------------------------------------------------
\* get_recommendations and the strict step of recommend (specification SpecMerge)
\* ------------------------------------------------------------------------
\* the iterations of get_recommendations' loop over the cuisines (lines 47-57): the
\* cuisine queried, the list the query returned, the merged list after the iteration
RECURSIVE MergeTrace(_, _, _, _, _)
MergeTrace(rows, kw, cuisines, merged, top_n) ==
    IF cuisines = <<>> THEN <<>>
    ELSE LET part == StoreQuery(rows, [kw EXCEPT !.cuisine_contains = Some(Head(cuisines))])
             next == MergeNew(merged, part)
             step == [cuisine |-> Head(cuisines), part |-> part, merged |-> next]
         IN  IF Len(next) >= top_n THEN <<step>>
             ELSE <<step>> \o MergeTrace(rows, kw, Tail(cuisines), next, top_n)

MergePrefsDomain ==
    { RecommendPreferences([EmptyRaw EXCEPT !.location = loc, !.min_rating = mr,
                                            !.cuisines = cu]) :
        loc \in {None, Some(<<"A", "b">>)},
        mr \in {None, Some(40)},
        cu \in {None, Some(<< <<"c">> >>), Some(<< <<"d">>, <<"x">> >>),
                Some(<< <<"x", "_">>, <<" ", "D">> >>), Some(<< <<"c">>, <<"d">> >>)} }

InitMergeSpec ==
    /\ store \in StoreDomain
    /\ InitRec
    /\ InitCache(1)
    /\ InitHist
    /\ InitApi
    /\ InitThreads
    /\ InitKeys
    /\ InitQuery
    /\ InitNorm
    /\ InitPipeline
    /\ InitLog
    /\ InitAnalytics
    /\ InitConn
    /\ gprefs \in MergePrefsDomain
    /\ gtopn \in TopNDomain
    /\ graw = <<>>
    /\ gqueried = <<>>
    /\ gfiltered = <<>>
    /\ gpc = "start"

\* recommend line 85: raw = get_recommendations(store, preferences, top_n)
GetRecommendationsCall ==
    /\ gpc = "start"
    /\ graw' = GetRecommendations(store, gprefs, gtopn)
    /\ gqueried' = IF (~IsSome(gprefs.cuisines)) \/ Val(gprefs.cuisines) = <<>>
                   THEN <<>>
                   ELSE MergeTrace(store,
                                   ToFilterKwargs(gprefs, Max(gtopn * OverFetchFactor,
                                                              OverFetchFloor)),
                                   Val(gprefs.cuisines), <<>>, gtopn)
    /\ gpc' = "fetched"
    /\ UNCHANGED <<store, recVars, cacheVars, histVars, apiVars, thrVars, keyVars, qryVars,
                   normVars, pipeVars, runVars, logVars, anaVars, connVars, gprefs, gtopn,
                   gfiltered>>

\* recommend line 86 with relax_if_empty = False: the strict post-filter and the slice
StrictPostFilter ==
    /\ gpc = "fetched"
    /\ gfiltered' = Take(SelectSeq2(graw, gprefs), gtopn)
    /\ gpc' = "done"
    /\ UNCHANGED <<store, recVars, cacheVars, histVars, apiVars, thrVars, keyVars, qryVars,
                   normVars, pipeVars, runVars, logVars, anaVars, connVars, gprefs, gtopn,
                   graw, gqueried>>

NextMerge ==
    \/ GetRecommendationsCall
    \/ StrictPostFilter

SpecMerge == InitMergeSpec /\ [][NextMerge]_vars

Min(a, b) == IF a < b THEN a ELSE b

\* the number of store records that satisfy the full preference set
MatchCount(prefs) == Cardinality({r \in SeqRange(store) : Satisfies(r, prefs)})

\* C24: with relaxation off, recommend returns exactly min(top_n, M) records, M being
\* the number of store records that satisfy the full preference set; a candidate the
\* post-filter rejects never displaces a valid match.
C24_StrictReturnsMinTopNMatches ==
    gpc = "done" =>
        /\ Len(gfiltered) = Min(gtopn, MatchCount(gprefs))
        /\ \A i \in 1..Len(gfiltered) : Satisfies(gfiltered[i], gprefs)

\* no requested cuisine holds a LIKE wildcard and no stored location holds a
\* whitespace character other than the space
FiltersAgree ==
    /\ IsSome(gprefs.cuisines) =>
          \A i \in 1..Len(Val(gprefs.cuisines)) :
              \A j \in 1..Len(Val(gprefs.cuisines)[i]) :
                  Val(gprefs.cuisines)[i][j] \notin {"_", "%"}
    /\ \A r \in SeqRange(store) :
          \A j \in 1..Len(Coalesce(r.location)) : Coalesce(r.location)[j] # "\t"

\* C24 where the store's filters and the post-filter accept the same records
C24_HoldsWhereFiltersAgree ==
    (gpc = "done" /\ FiltersAgree) =>
        /\ Len(gfiltered) = Min(gtopn, MatchCount(gprefs))
        /\ \A i \in 1..Len(gfiltered) : Satisfies(gfiltered[i], gprefs)

\* the first cuisine's wildcard query filled the merged list with a record the
\* post-filter rejects; the loop stopped, and a record matching the second cuisine
\* was never fetched
C24_RejectedCandidateDisplacesMatch ==
    /\ gpc = "done"
    /\ gfiltered = <<>>
    /\ Len(graw) = gtopn
    /\ Len(gqueried) = 1
    /\ Len(Val(gprefs.cuisines)) = 2
    /\ \E r \in SeqRange(store) : RestaurantMatchesPreferences(r, gprefs)

\* the request names more than one cuisine and get_recommendations has returned
MultiCuisineCallDone ==
    gpc # "start" /\ IsSome(gprefs.cuisines) /\ Len(Val(gprefs.cuisines)) > 1

\* one query per cuisine in list order, each result's unseen records appended, the
\* loop left as soon as top_n records are merged, the merged list cut to top_n
MergeMechanics ==
    LET cu == Val(gprefs.cuisines)
        n == Len(gqueried)
        kw == ToFilterKwargs(gprefs, Max(gtopn * OverFetchFactor, OverFetchFloor))
        before(i) == IF i = 1 THEN <<>> ELSE gqueried[i - 1].merged
    IN  /\ n \in 1..Len(cu)
        /\ \A i \in 1..n :
              /\ gqueried[i].cuisine = cu[i]
              /\ gqueried[i].part =
                    StoreQuery(store, [kw EXCEPT !.cuisine_contains = Some(cu[i])])
              /\ gqueried[i].merged =
                    before(i) \o SelectSeq(gqueried[i].part,
                                           LAMBDA r : r.id \notin Ids(before(i)))
              /\ i < n => Len(gqueried[i].merged) < gtopn
        /\ n < Len(cu) => Len(gqueried[n].merged) >= gtopn
        /\ graw = Take(gqueried[n].merged, gtopn)
        /\ \A i, j \in 1..Len(graw) : graw[i].id = graw[j].id => i = j

\* the record's cuisines contain the cuisine (lowercased, whitespace removed)
CuisineNamed(r, cuisine) ==
    Contains(PyLowerNoSpace(Coalesce(r.cuisines)), PyNormToken(cuisine))

\* C25: with more than one cuisine, get_recommendations runs one store query per
\* cuisine in list order, appends each result's records not yet seen (by id), stops
\* once at least top_n records are merged, and returns a list without duplicate ids
\* in which every record matches at least one of the cuisines queried.
C25_MultiCuisineMerge ==
    MultiCuisineCallDone =>
        /\ MergeMechanics
        /\ \A k \in 1..Len(graw) :
              \E i \in 1..Len(gqueried) : CuisineNamed(graw[k], gqueried[i].cuisine)

\* C25 with "matches" read as the store's own LIKE condition
C25_HoldsForStoreMatching ==
    MultiCuisineCallDone =>
        /\ MergeMechanics
        /\ \A k \in 1..Len(graw) :
              \E i \in 1..Len(gqueried) : StoreCuisineCond(graw[k], gqueried[i].cuisine)

\* both cuisines were queried and the second query added records to the first's
C25_MergedFromTwoQueries ==
    /\ MultiCuisineCallDone
    /\ Len(gqueried) = 2
    /\ gqueried[1].merged # <<>>
    /\ Len(gqueried[2].merged) > Len(gqueried[1].merged)
    /\ Len(gqueried[2].part) > Len(gqueried[2].merged) - Len(gqueried[1].merged)

Ranked(list) == \A i, j \in 1..Len(list) : i < j => RankedNoLater(list[i], list[j])

\* C26: the list get_recommendations returns and the list recommend returns are
\* ordered by rate descending with null rates last, ties by votes descending with
\* null votes last, for every preference set, merged multi-cuisine results included.
C26_ResultsRanked ==
    /\ gpc # "start" => Ranked(graw)
    /\ gpc = "done" => Ranked(gfiltered)

\* C26 for the preference sets that lead to a single store query
C26_HoldsForOneQuery ==
    (~IsSome(gprefs.cuisines) \/ Len(Val(gprefs.cuisines)) = 1) =>
        /\ gpc # "start" => Ranked(graw)
        /\ gpc = "done" => Ranked(gfiltered)

\* recommend returned a record without a rate ahead of a rated one
C26_MergedOutOfOrder ==
    /\ gpc = "done"
    /\ \A k \in 1..Len(gfiltered) :
          \E i \in 1..Len(gqueried) : CuisineNamed(gfiltered[k], gqueried[i].cuisine)
    /\ Len(gfiltered) = 2
    /\ gfiltered[1].rate = None
    /\ gfiltered[2].rate # None
\* ------------------------------------------------------------------------
\* the analytics log behind /recommend and /analytics/popular (specification SpecApi)
\* ------------------------------------------------------------------------
\* a /recommend request enters the handler
RequestArrives == body = None /\ body' # None

\* the body names a location or cuisines
NamesLocationOrCuisines(b) ==
    \/ IsSome(b.location) /\ PyStrip(Val(b.location)) # <<>>
    \/ IsSome(b.cuisines) /\ Val(b.cuisines) # <<>>

\* the log gains exactly one event, which carries the names of the body
LoggedOnce(b) ==
    /\ Len(events') = Len(events) + 1
    /\ SubSeq(events', 1, Len(events)) = events
    /\ LET ev == events'[Len(events')]
       IN  /\ IsSome(b.location) => ev.location = Some(PyStrip(Val(b.location)))
           /\ IsSome(b.cuisines) =>
                 ev.cuisines = Some([i \in 1..Len(Val(b.cuisines)) |-> PyStrip(Val(b.cuisines)[i])])

\* the logged requests that named the location / the cuisine
NamedLocation(ev, name) == IsSome(ev.location) /\ Val(ev.location) = name

NamedCuisine(ev, name) == IsSome(ev.cuisines) /\ InList(Val(ev.cuisines), name)

RequestsNaming(Named(_, _), name) ==
    Cardinality({i \in 1..Len(events) : Named(events[i], name)})

LocationNames ==
    {Val(events[i].location) : i \in {j \in 1..Len(events) : IsSome(events[j].location)}}

CuisineNames ==
    UNION {SeqRange(Val(events[i].cuisines)) :
              i \in {j \in 1..Len(events) : IsSome(events[j].cuisines)}}

\* how often the cuisine occurs in the lists of the logged requests
RECURSIVE OccurrencesIn(_, _)
OccurrencesIn(list, name) ==
    IF list = <<>> THEN 0
    ELSE (IF Head(list) = name THEN 1 ELSE 0) + OccurrencesIn(Tail(list), name)

RECURSIVE CuisineOccurrences(_, _)
CuisineOccurrences(log, name) ==
    IF log = <<>> THEN 0
    ELSE OccurrencesIn(Coalesce(Head(log).cuisines), name) + CuisineOccurrences(Tail(log), name)

\* a list of get_popular: the given count for each name, sorted by count descending,
\* the top names of all, truncated to top
PopularList(list, top, names, CountOf(_)) ==
    /\ Len(list) = Min(top, Cardinality(names))
    /\ \A i \in 1..Len(list) : list[i].name \in names /\ list[i].count = CountOf(list[i].name)
    /\ \A i, j \in 1..Len(list) : i < j =>
          list[i].name # list[j].name /\ list[i].count >= list[j].count
    /\ \A n \in names : (\A i \in 1..Len(list) : list[i].name # n) =>
          \A i \in 1..Len(list) : list[i].count >= CountOf(n)

LocationRequests(name) == RequestsNaming(NamedLocation, name)

CuisineRequests(name) == RequestsNaming(NamedCuisine, name)

CuisineMentions(name) == CuisineOccurrences(events, name)

LogStep ==
    /\ RequestArrives =>
          IF NamesLocationOrCuisines(Val(body')) THEN LoggedOnce(Val(body'))
          ELSE events' = events
    /\ ~RequestArrives => (events' = events \/ events' = <<>>)
    /\ (pc = "idle" /\ pc' = "idle" /\ events' # events) => events' = <<>>

\* C22: every /recommend request naming a location or cuisines is logged exactly once,
\* served from the cache or computed; get_popular reports for each location and each
\* cuisine the number of requests that named it, sorted by count descending and
\* truncated to the requested top count; clear_events empties the log, so that every
\* count is zero afterwards.
C22_PopularCountsRequests ==
    /\ [](pc = "popular" =>
            LET p == Val(popular)
            IN  /\ PopularList(p.result.locations, p.top_locations, LocationNames,
                               LocationRequests)
                /\ PopularList(p.result.cuisines, p.top_cuisines, CuisineNames,
                               CuisineRequests))
    /\ [][LogStep]_vars

\* what the code does: a cuisine is counted once for each time a request lists it
C22_HoldsCountingMentions ==
    /\ [](pc = "popular" =>
            LET p == Val(popular)
            IN  /\ PopularList(p.result.locations, p.top_locations, LocationNames,
                               LocationRequests)
                /\ PopularList(p.result.cuisines, p.top_cuisines, CuisineNames,
                               CuisineMentions))
    /\ [][LogStep]_vars

\* one request listed a cuisine twice and get_popular reports the cuisine with count 2
C22_RepeatedCuisineCountedTwice ==
    /\ pc = "popular"
    /\ Len(events) = 1
    /\ \E i \in 1..Len(Val(popular).result.cuisines) :
          Val(popular).result.cuisines[i].count = 2

\* two requests: the cuisine counted first has the lower count and is listed second
C22_SortedByCount ==
    /\ pc = "popular"
    /\ Len(events) = 2
    /\ Len(Val(popular).result.cuisines) = 2
    /\ Val(popular).result.cuisines[1].count > Val(popular).result.cuisines[2].count
    /\ Val(popular).result.cuisines[2].name = Val(events[1].cuisines)[1]

\* a request served from the cache has been logged
C22_CachedRequestLogged ==
    /\ pc = "done"
    /\ fromCache
    /\ Len(events) = 2
    /\ events[2] = UsageEvent(ModelDump(Val(body)))
\* ------------------------------------------------------------------------
\* repeated requests and the store connection of the handler (specification SpecApi)
\* ------------------------------------------------------------------------
\* the cache keeps what it holds: no entry is removed or changed
EntriesKept == \A k \in DOMAIN cData : k \in DOMAIN cData' /\ cData'[k] = cData[k]

\* a /recommend request enters the handler and the cache holds an entry for its body
RepeatedRequest ==
    /\ body = None
    /\ body' # None
    /\ CacheKeyFromRequest(ModelDump(Val(body'))) \in DOMAIN cData

InRecommend == caller = "api" /\ pc \in {"filter", "summary", "llm", "return"}

\* the handler is at rest: before a request or after its return or exception
HandlerLeft == pc \in {"idle", "done", "error", "popular"}

CacheWritten == cData' # cData \/ setCalls' > setCalls

\* C30: each computed /recommend request opens its own store connection, which is open
\* while recommend runs and closed on every exit of the handler (return, store error);
\* a request answered from the cache opens no connection; the cache is written at most
\* once per request and only after recommend has returned its result.
C30_ConnectionClosedOnEveryExit ==
    /\ [](/\ HandlerLeft => ~connOpen
          /\ InRecommend => connOpen /\ opens = 1 /\ setCalls = 0
          /\ fromCache => opens = 0 /\ setCalls = 0
          /\ (caller = "api" /\ ~fromCache /\ pc \in {"done", "error"}) => opens = 1
          /\ setCalls <= 1
          /\ setCalls = 1 => pc = "done" /\ IsSome(resp) /\ storeFailed = 0
          /\ pc = "error" => setCalls = 0)
    /\ [][CacheWritten =>
             /\ pc = "cacheset"
             /\ IsSome(resp)
             /\ storeFailed = 0
             /\ cData' = DictPut(cData, Val(key), Val(resp))]_vars

\* a store error has left the handler: the connection it opened is closed
C30_Witness ==
    /\ pc = "error"
    /\ caller = "api"
    /\ storeFailed # 0
    /\ opens = 1
    /\ ~connOpen
    /\ setCalls = 0

\* a computed request has returned: one connection, closed, one cache write
C30_WitnessReturn ==
    /\ pc = "done"
    /\ caller = "api"
    /\ ~fromCache
    /\ opens = 1
    /\ ~connOpen
    /\ setCalls = 1
\* ------------------------------------------------------------------------
\* the store is refreshed while the API process keeps running (specification SpecRefresh)
\* ------------------------------------------------------------------------
\* run_pipeline(clear_before=True) on the database of the API, between two requests:
\* the table is cleared and the new rows are inserted; the API process and its
\* recommendation_cache are not involved
StoreReplaced ==
    /\ pc = "idle"
    /\ runs < MaxRuns
    /\ runs' = runs + 1
    /\ store' \in ApiStoreDomain \ {store}
    /\ UNCHANGED <<recVars, cacheVars, histVars, apiVars, thrVars, keyVars, qryVars, normVars,
                   table, praw, pnorm, pseen, pclear, ppc, phist, runVars, logVars, anaVars,
                   connVars, mergeVars>>

NextRefresh ==
    \/ ApiCacheHit
    \/ ApiCacheMiss
    \/ StoreReplaced
    \/ Filter
    \/ FilterStoreError
    \/ SkipSummary
    \/ GetLlmSummary
    \/ CompletionReturns
    \/ CompletionRaises
    \/ Return
    \/ ApiCacheSet
    \/ Finish

SpecRefresh == InitApiSpec /\ [][NextRefresh]_vars

ResponseRecordsInStore ==
    \A i \in 1..Len(Val(resp).restaurants) : Val(resp).restaurants[i] \in SeqRange(store)

\* C29: every restaurant record of a /recommend response exists in the store when the
\* request is answered; after the store was cleared or refreshed, no request is answered
\* from a cache entry computed against the earlier contents.
C29_ResponseFromCurrentStore ==
    (pc = "done" /\ caller = "api") => ResponseRecordsInStore

\* a response computed by the request itself holds records of the current store only
C29_HoldsForComputedResponses ==
    (pc = "done" /\ caller = "api" /\ ~fromCache) => ResponseRecordsInStore

\* the store was emptied and the request is answered from the cache with a record
C29_StaleEntryServed ==
    /\ pc = "done"
    /\ caller = "api"
    /\ fromCache
    /\ runs > 0
    /\ store = <<>>
    /\ Val(resp).restaurants # <<>>
====
